---- MODULE Spec2Model ----
(***************************************************************************)
(* A model of the snippets Jira status reporter: the status classifier,    *)
(* the date parser, the record normaliser (ExtractIssueData), the filter   *)
(* and sort engine (filterAndSortIssues), the renderers, the tracker       *)
(* client (SearchIssues, GetMostRecentComments) and the run of             *)
(* GenerateReport that ties them together.                                 *)
(*                                                                         *)
(* A Go string is modelled as the sequence of its Unicode code points.     *)
(* For valid UTF-8 the byte-wise operations the program uses (==, <,       *)
(* strings.Contains, strings.ReplaceAll, strings.TrimSuffix) agree with    *)
(* the same operations on code points.                                     *)
(*                                                                         *)
(* An instant (Go time.Time) is a record [d, s, n, z]: days since          *)
(* 0001-01-01, second of the day and nanosecond of the second, all in UTC, *)
(* and the offset in seconds of the zone the time is displayed in.         *)
(***************************************************************************)
EXTENDS Integers, Sequences, FiniteSets, TLC

VARIABLES
    pc,         \* position of the run: which operation acts next
    now,        \* the value time.Now() returns during the run, in the local zone
    fieldId,    \* customFields["Target end"]: the resolved custom field id
    raw,        \* the arguments of the ExtractIssueData call
    isOverdue,  \* what IsOverdue returned for the raw status and target end
    rec,        \* the *IssueData ExtractIssueData returned
    issues,     \* the []*IssueData handed to a renderer
    cfg,        \* the *ReportConfig of the run
    filtered,   \* what filterAndSortIssues returned
    again,      \* what filterAndSortIssues returned for its own output
    server,     \* the server URL handed to RenderURLReport
    output,     \* the string the renderer returned
    \* GenerateReport
    issueKeys,  \* the issue keys named on the command line
    tracker,    \* what the tracker holds: payload, subtasks, links, comments
    fetches,    \* the GetIssue requests made so far, each with its outcome
    parentIssues,        \* GenerateReport's parentIssues
    childIssues,         \* GenerateReport's childIssues
    mostRecentComments,  \* the map GetMostRecentComments returned
    cursor,     \* the index of the loop the run is in
    calls,      \* the renderers GenerateReport has invoked
    \* SearchIssues
    maxResults, \* the maxResults argument
    startAt,    \* the local startAt
    pageSize,   \* the local pageSize
    allIssues,  \* the local allIssues
    searchLog,  \* the search requests made so far: startAt and maxResults
    found       \* what SearchIssues returned

\* the state of a GenerateReport run
reportVars == <<issueKeys, tracker, fetches, parentIssues, childIssues,
                mostRecentComments, cursor, calls>>

\* the state of a SearchIssues call
searchVars == <<maxResults, startAt, pageSize, allIssues, searchLog, found>>

vars == <<pc, now, fieldId, raw, isOverdue, rec, issues, cfg, filtered, again, server,
          output, reportVars, searchVars>>

(***************************************************************************)
(* Small helpers.                                                          *)
(***************************************************************************)
MinOf(S) == CHOOSE x \in S : \A y \in S : x <= y
MaxOf(S) == CHOOSE x \in S : \A y \in S : x >= y

\* nil: a missing map, a nil pointer, a failed parse
Nil == "nil"

(***************************************************************************)
(* Go string operations on code point sequences.                           *)
(***************************************************************************)
\* the lower-case mappings of the letters above U+007F, as the ranges of
\* unicode.CaseRanges: <<first, last, delta, stride>> says that every
\* stride-th code point from first to last lower-cases to itself plus delta
\* (stride 2: the blocks where upper and lower case alternate)
CaseRanges ==
    {
      <<192, 214, 32, 1>>, <<216, 222, 32, 1>>, <<256, 302, 1, 2>>,
      <<304, 304, -199, 1>>, <<306, 310, 1, 2>>, <<313, 327, 1, 2>>,
      <<330, 374, 1, 2>>, <<376, 376, -121, 1>>, <<377, 381, 1, 2>>,
      <<385, 385, 210, 1>>, <<386, 388, 1, 2>>, <<390, 390, 206, 1>>,
      <<391, 391, 1, 1>>, <<393, 394, 205, 1>>, <<395, 395, 1, 1>>,
      <<398, 398, 79, 1>>, <<399, 399, 202, 1>>, <<400, 400, 203, 1>>,
      <<401, 401, 1, 1>>, <<403, 403, 205, 1>>, <<404, 404, 207, 1>>,
      <<406, 406, 211, 1>>, <<407, 407, 209, 1>>, <<408, 408, 1, 1>>,
      <<412, 412, 211, 1>>, <<413, 413, 213, 1>>, <<415, 415, 214, 1>>,
      <<416, 420, 1, 2>>, <<422, 422, 218, 1>>, <<423, 423, 1, 1>>,
      <<425, 425, 218, 1>>, <<428, 428, 1, 1>>, <<430, 430, 218, 1>>,
      <<431, 431, 1, 1>>, <<433, 434, 217, 1>>, <<435, 437, 1, 2>>,
      <<439, 439, 219, 1>>, <<440, 440, 1, 1>>, <<444, 444, 1, 1>>,
      <<452, 452, 2, 1>>, <<453, 453, 1, 1>>, <<455, 455, 2, 1>>,
      <<456, 456, 1, 1>>, <<458, 458, 2, 1>>, <<459, 475, 1, 2>>,
      <<478, 494, 1, 2>>, <<497, 497, 2, 1>>, <<498, 500, 1, 2>>,
      <<502, 502, -97, 1>>, <<503, 503, -56, 1>>, <<504, 542, 1, 2>>,
      <<544, 544, -130, 1>>, <<546, 562, 1, 2>>, <<570, 570, 10795, 1>>,
      <<571, 571, 1, 1>>, <<573, 573, -163, 1>>, <<574, 574, 10792, 1>>,
      <<577, 577, 1, 1>>, <<579, 579, -195, 1>>, <<580, 580, 69, 1>>,
      <<581, 581, 71, 1>>, <<582, 590, 1, 2>>, <<880, 882, 1, 2>>,
      <<886, 886, 1, 1>>, <<895, 895, 116, 1>>, <<902, 902, 38, 1>>,
      <<904, 906, 37, 1>>, <<908, 908, 64, 1>>, <<910, 911, 63, 1>>,
      <<913, 929, 32, 1>>, <<931, 939, 32, 1>>, <<975, 975, 8, 1>>,
      <<984, 1006, 1, 2>>, <<1012, 1012, -60, 1>>, <<1015, 1015, 1, 1>>,
      <<1017, 1017, -7, 1>>, <<1018, 1018, 1, 1>>, <<1021, 1023, -130, 1>>,
      <<1024, 1039, 80, 1>>, <<1040, 1071, 32, 1>>, <<1120, 1152, 1, 2>>,
      <<1162, 1214, 1, 2>>, <<1216, 1216, 15, 1>>, <<1217, 1229, 1, 2>>,
      <<1232, 1326, 1, 2>>, <<1329, 1366, 48, 1>>, <<4256, 4293, 7264, 1>>,
      <<4295, 4295, 7264, 1>>, <<4301, 4301, 7264, 1>>,
      <<5024, 5103, 38864, 1>>, <<5104, 5109, 8, 1>>,
      <<7312, 7354, -3008, 1>>, <<7357, 7359, -3008, 1>>,
      <<7680, 7828, 1, 2>>, <<7838, 7838, -7615, 1>>, <<7840, 7934, 1, 2>>,
      <<7944, 7951, -8, 1>>, <<7960, 7965, -8, 1>>, <<7976, 7983, -8, 1>>,
      <<7992, 7999, -8, 1>>, <<8008, 8013, -8, 1>>, <<8025, 8031, -8, 2>>,
      <<8040, 8047, -8, 1>>, <<8072, 8079, -8, 1>>, <<8088, 8095, -8, 1>>,
      <<8104, 8111, -8, 1>>, <<8120, 8121, -8, 1>>, <<8122, 8123, -74, 1>>,
      <<8124, 8124, -9, 1>>, <<8136, 8139, -86, 1>>, <<8140, 8140, -9, 1>>,
      <<8152, 8153, -8, 1>>, <<8154, 8155, -100, 1>>, <<8168, 8169, -8, 1>>,
      <<8170, 8171, -112, 1>>, <<8172, 8172, -7, 1>>,
      <<8184, 8185, -128, 1>>, <<8186, 8187, -126, 1>>,
      <<8188, 8188, -9, 1>>, <<8486, 8486, -7517, 1>>,
      <<8490, 8490, -8383, 1>>, <<8491, 8491, -8262, 1>>,
      <<8498, 8498, 28, 1>>, <<8544, 8559, 16, 1>>, <<8579, 8579, 1, 1>>,
      <<9398, 9423, 26, 1>>, <<11264, 11311, 48, 1>>, <<11360, 11360, 1, 1>>,
      <<11362, 11362, -10743, 1>>, <<11363, 11363, -3814, 1>>,
      <<11364, 11364, -10727, 1>>, <<11367, 11371, 1, 2>>,
      <<11373, 11373, -10780, 1>>, <<11374, 11374, -10749, 1>>,
      <<11375, 11375, -10783, 1>>, <<11376, 11376, -10782, 1>>,
      <<11378, 11378, 1, 1>>, <<11381, 11381, 1, 1>>,
      <<11390, 11391, -10815, 1>>, <<11392, 11490, 1, 2>>,
      <<11499, 11501, 1, 2>>, <<11506, 11506, 1, 1>>, <<42560, 42604, 1, 2>>,
      <<42624, 42650, 1, 2>>, <<42786, 42798, 1, 2>>, <<42802, 42862, 1, 2>>,
      <<42873, 42875, 1, 2>>, <<42877, 42877, -35332, 1>>,
      <<42878, 42886, 1, 2>>, <<42891, 42891, 1, 1>>,
      <<42893, 42893, -42280, 1>>, <<42896, 42898, 1, 2>>,
      <<42902, 42920, 1, 2>>, <<42922, 42922, -42308, 1>>,
      <<42923, 42923, -42319, 1>>, <<42924, 42924, -42315, 1>>,
      <<42925, 42925, -42305, 1>>, <<42926, 42926, -42308, 1>>,
      <<42928, 42928, -42258, 1>>, <<42929, 42929, -42282, 1>>,
      <<42930, 42930, -42261, 1>>, <<42931, 42931, 928, 1>>,
      <<42932, 42946, 1, 2>>, <<42948, 42948, -48, 1>>,
      <<42949, 42949, -42307, 1>>, <<42950, 42950, -35384, 1>>,
      <<42951, 42953, 1, 2>>, <<42960, 42960, 1, 1>>, <<42966, 42968, 1, 2>>,
      <<42997, 42997, 1, 1>>, <<65313, 65338, 32, 1>>,
      <<66560, 66599, 40, 1>>, <<66736, 66771, 40, 1>>,
      <<66928, 66938, 39, 1>>, <<66940, 66954, 39, 1>>,
      <<66956, 66962, 39, 1>>, <<66964, 66965, 39, 1>>,
      <<68736, 68786, 64, 1>>, <<71840, 71871, 32, 1>>,
      <<93760, 93791, 32, 1>>, <<125184, 125217, 34, 1>>
    }

\* unicode.ToLower: the ASCII letters directly, the others by CaseRanges
LowerRune(c) ==
    IF c < 128 THEN (IF c >= 65 /\ c <= 90 THEN c + 32 ELSE c)
    ELSE LET hit == {r \in CaseRanges :
                        r[1] <= c /\ c <= r[2] /\ (c - r[1]) % r[4] = 0}
         IN  IF hit = {} THEN c ELSE c + (CHOOSE r \in hit : TRUE)[3]

\* strings.ToLower
ToLower(s) == [i \in 1..Len(s) |-> LowerRune(s[i])]

\* unicode.IsSpace: \t \n \v \f \r, space, U+0085, U+00A0, and above
\* Latin-1 the code points with the White_Space property
IsSpace(c) ==
    \/ c \in {9, 10, 11, 12, 13, 32, 133, 160}
    \/ c \in {5760, 8232, 8233, 8239, 8287, 12288}
    \/ c >= 8192 /\ c <= 8202

\* strings.TrimSpace
TrimSpace(s) ==
    LET keep == {i \in 1..Len(s) : ~IsSpace(s[i])}
    IN  IF keep = {} THEN <<>> ELSE SubSeq(s, MinOf(keep), MaxOf(keep))

\* strings.Contains
Contains(s, sub) ==
    \E i \in 0..(Len(s) - Len(sub)) : SubSeq(s, i + 1, i + Len(sub)) = sub

\* the < of two Go strings: lexicographic
StrLess(a, b) ==
    LET m    == IF Len(a) < Len(b) THEN Len(a) ELSE Len(b)
        diff == {i \in 1..m : a[i] # b[i]}
    IN  IF diff = {} THEN Len(a) < Len(b)
        ELSE a[MinOf(diff)] < b[MinOf(diff)]

\* strings.TrimSuffix(s, "/")
TrimSuffixSlash(s) ==
    IF Len(s) > 0 /\ s[Len(s)] = 47 THEN SubSeq(s, 1, Len(s) - 1) ELSE s

\* strings.TrimRight(s, "/")
TrimRightSlash(s) ==
    LET keep == {i \in 1..Len(s) : s[i] # 47}
    IN  IF keep = {} THEN <<>> ELSE SubSeq(s, 1, MaxOf(keep))

\* strings.Join
RECURSIVE Join(_, _)
Join(parts, sep) ==
    IF Len(parts) = 0 THEN <<>>
    ELSE IF Len(parts) = 1 THEN parts[1]
    ELSE parts[1] \o sep \o Join(Tail(parts), sep)

IsDigit(c) == c >= 48 /\ c <= 57

(***************************************************************************)
(* The status tables.                                                      *)
(***************************************************************************)
sDone        == <<100, 111, 110, 101>>                                \* "done"
sClosed      == <<99, 108, 111, 115, 101, 100>>                       \* "closed"
sResolved    == <<114, 101, 115, 111, 108, 118, 101, 100>>            \* "resolved"
sInProgress  == <<105, 110, 32, 112, 114, 111, 103, 114, 101, 115, 115>>  \* "in progress"
sAtRisk      == <<97, 116, 32, 114, 105, 115, 107>>                   \* "at risk"
sOffTrack    == <<111, 102, 102, 32, 116, 114, 97, 99, 107>>          \* "off track"
sBlocked     == <<98, 108, 111, 99, 107, 101, 100>>                   \* "blocked"
sNotStarted  == <<110, 111, 116, 32, 115, 116, 97, 114, 116, 101, 100>>   \* "not started"
sReadyForWork == <<114, 101, 97, 100, 121, 32, 102, 111, 114, 32, 119, 111, 114, 107>>  \* "ready for work"
sVetting     == <<118, 101, 116, 116, 105, 110, 103>>                 \* "vetting"
sNew         == <<110, 101, 119>>                                     \* "new"
sUnknown     == <<85, 110, 107, 110, 111, 119, 110>>                  \* "Unknown"
sOverdue     == <<111, 118, 101, 114, 100, 117, 101>>                 \* "overdue"
sNA          == <<78, 47, 65>>                                        \* "N/A"
sNone        == <<78, 111, 110, 101>>                                 \* "None"

ePurple   == <<128995>>     \* U+1F7E3, purple circle
eGreen    == <<128994>>     \* U+1F7E2, green circle
eYellow   == <<128993>>     \* U+1F7E1, yellow circle
eRed      == <<128308>>     \* U+1F534, red circle: the off-track glyph
eWhite    == <<9898>>       \* U+26AA, white circle
eQuestion == <<10067>>      \* U+2753, question mark: the unknown glyph

\* var statusCategories: status name -> emoji
statusCategories ==
    (sDone :> ePurple) @@ (sClosed :> ePurple) @@ (sResolved :> ePurple) @@
    (sInProgress :> eGreen) @@ (sAtRisk :> eYellow) @@
    (sOffTrack :> eRed) @@ (sBlocked :> eRed) @@
    (sNotStarted :> eWhite) @@ (sReadyForWork :> eWhite) @@
    (sVetting :> eWhite) @@ (sNew :> eWhite)

\* var statusOrder: the sort priority list (Go index i is position i + 1)
statusOrder ==
    <<sDone, sClosed, sResolved, sInProgress, sAtRisk, sOffTrack, sBlocked,
      sNotStarted, sReadyForWork, sVetting, sNew>>

\* var statusPriority: status name -> index in statusOrder
statusPriority ==
    [s \in {statusOrder[i] : i \in 1..Len(statusOrder)} |->
        (CHOOSE i \in 1..Len(statusOrder) : statusOrder[i] = s) - 1]

\* func GetStatusEmoji
GetStatusEmoji(statusName) ==
    LET status == ToLower(TrimSpace(statusName))
    IN  IF status \in DOMAIN statusCategories THEN statusCategories[status]
        ELSE eQuestion

GetStatusPriorityLowestFirst(statusName) ==
    LET status == ToLower(TrimSpace(statusName))
    IN  IF status \in DOMAIN statusPriority
        THEN Len(statusOrder) - 1 - statusPriority[status]
        ELSE 999

\* func GetStatusPriority
GetStatusPriority(statusName) ==
    LET status == ToLower(TrimSpace(statusName))
    IN  IF status \in DOMAIN statusPriority THEN statusPriority[status]
        ELSE 999

(***************************************************************************)
(* Instants and the calendar (package time).                               *)
(***************************************************************************)
IsLeap(y) == y % 4 = 0 /\ (y % 100 # 0 \/ y % 400 = 0)

\* time.daysIn
daysIn(m, y) ==
    IF m = 2 THEN (IF IsLeap(y) THEN 29 ELSE 28)
    ELSE IF m \in {4, 6, 9, 11} THEN 30 ELSE 31

\* days from 0001-01-01 to the first day of year y
DaysBeforeYear(y) ==
    365 * (y - 1) + ((y - 1) \div 4) - ((y - 1) \div 100) + ((y - 1) \div 400)

RECURSIVE DaysBeforeMonth(_, _)
DaysBeforeMonth(m, y) ==
    IF m <= 1 THEN 0 ELSE daysIn(m - 1, y) + DaysBeforeMonth(m - 1, y)

\* time.Date(y, m, d, hh, mm, ss, ns, time.UTC) moved back by zoff seconds
Instant(y, m, d, hh, mm, ss, ns, zoff) ==
    LET days == DaysBeforeYear(y) + DaysBeforeMonth(m, y) + (d - 1)
        secs == hh * 3600 + mm * 60 + ss - zoff
    IN  [ok |-> TRUE, d |-> days + (secs \div 86400), s |-> secs % 86400,
         n |-> ns, z |-> zoff]

\* the error result of a parse
ParseErr == [ok |-> FALSE, d |-> 0, s |-> 0, n |-> 0, z |-> 0]

\* Time.Before
Before(a, b) ==
    \/ a.d < b.d
    \/ a.d = b.d /\ a.s < b.s
    \/ a.d = b.d /\ a.s = b.s /\ a.n < b.n

\* Time.After
After(a, b) == Before(b, a)

\* Time.UTC: the same instant, displayed in UTC
UTC(t) == [t EXCEPT !.z = 0]

\* Time.Truncate(24 * time.Hour) of a UTC instant: midnight of its day
Truncate24h(t) == [t EXCEPT !.s = 0, !.n = 0]

(***************************************************************************)
(* time.Parse, for the layout elements the program's layouts use.          *)
(* A layout is the sequence of its chunks; the parse state carries the     *)
(* rest of the value and the fields read so far.                           *)
(***************************************************************************)
RECURSIVE Num(_)
Num(digits) ==
    IF Len(digits) = 0 THEN 0
    ELSE 10 * Num(SubSeq(digits, 1, Len(digits) - 1)) + (digits[Len(digits)] - 48)

AllDigits(s) == \A i \in 1..Len(s) : IsDigit(s[i])

RECURSIVE Pow10(_)
Pow10(k) == IF k <= 0 THEN 1 ELSE 10 * Pow10(k - 1)

Drop(s, k) == SubSeq(s, k + 1, Len(s))

\* time.getnum: one or two digits (exactly two when fixed)
getnum(s, fixed) ==
    IF Len(s) < 1 \/ ~IsDigit(s[1]) THEN [ok |-> FALSE, n |-> 0, rest |-> s]
    ELSE IF Len(s) < 2 \/ ~IsDigit(s[2])
         THEN IF fixed THEN [ok |-> FALSE, n |-> 0, rest |-> s]
              ELSE [ok |-> TRUE, n |-> s[1] - 48, rest |-> Drop(s, 1)]
    ELSE [ok |-> TRUE, n |-> Num(SubSeq(s, 1, 2)), rest |-> Drop(s, 2)]

\* time.parseNanoseconds(value, nbytes): [ok, ns]
parseNanoseconds(value, nbytes) ==
    LET nb   == IF nbytes > 10 THEN 10 ELSE nbytes
        txt  == SubSeq(value, 2, nb)
        sign == Len(txt) > 0 /\ txt[1] \in {43, 45}
        body == IF sign THEN Tail(txt) ELSE txt
    IN  IF ~(value[1] \in {46, 44}) \/ ~AllDigits(body)
        THEN [ok |-> FALSE, ns |-> 0]
        ELSE IF sign /\ txt[1] = 45 /\ Num(body) > 0
        THEN [ok |-> FALSE, ns |-> 0]
        ELSE [ok |-> TRUE, ns |-> Num(body) * Pow10(10 - nb)]

\* the literal chunks of the layouts
LitRune == ("-" :> 45) @@ ("T" :> 84) @@ (":" :> 58) @@ ("Z" :> 90)

ParseStart(value) ==
    [ok |-> TRUE, v |-> value, year |-> 1, month |-> 1, day |-> 1,
     hour |-> 0, min |-> 0, sec |-> 0, nsec |-> 0, zoff |-> 0]

\* a numeric zone offset: sign, two-digit hour, two-digit minute
ZoneOffset(st, sign, hh, mm, rest) ==
    LET h == getnum(hh, TRUE)
        m == getnum(mm, TRUE)
    IN  IF ~h.ok \/ ~m.ok \/ h.n > 24 \/ m.n > 60 \/ ~(sign \in {43, 45})
        THEN [st EXCEPT !.ok = FALSE]
        ELSE [st EXCEPT !.v = rest,
                        !.zoff = IF sign = 45 THEN -((h.n * 60 + m.n) * 60)
                                 ELSE (h.n * 60 + m.n) * 60]

\* one chunk of the layout applied to the parse state; nxt is the next chunk
ParseChunk(st, tok, nxt) ==
    LET v   == st.v
        bad == [st EXCEPT !.ok = FALSE]
    IN
    IF ~st.ok THEN st
    ELSE IF tok \in DOMAIN LitRune THEN
        IF Len(v) >= 1 /\ v[1] = LitRune[tok] THEN [st EXCEPT !.v = Tail(v)]
        ELSE bad
    ELSE IF tok = "2006" THEN
        IF Len(v) >= 4 /\ AllDigits(SubSeq(v, 1, 4))
        THEN [st EXCEPT !.year = Num(SubSeq(v, 1, 4)), !.v = Drop(v, 4)]
        ELSE bad
    ELSE IF tok = "01" THEN
        LET g == getnum(v, TRUE)
        IN  IF g.ok /\ g.n >= 1 /\ g.n <= 12
            THEN [st EXCEPT !.month = g.n, !.v = g.rest] ELSE bad
    ELSE IF tok = "02" THEN
        LET g == getnum(v, TRUE)
        IN  IF g.ok THEN [st EXCEPT !.day = g.n, !.v = g.rest] ELSE bad
    ELSE IF tok = "15" THEN
        LET g == getnum(v, FALSE)
        IN  IF g.ok /\ g.n < 24
            THEN [st EXCEPT !.hour = g.n, !.v = g.rest] ELSE bad
    ELSE IF tok = "04" THEN
        LET g == getnum(v, TRUE)
        IN  IF g.ok /\ g.n < 60
            THEN [st EXCEPT !.min = g.n, !.v = g.rest] ELSE bad
    ELSE IF tok = "05" THEN
        LET g == getnum(v, TRUE)
        IN  IF ~(g.ok /\ g.n < 60) THEN bad
            ELSE LET r == g.rest
                 IN  IF Len(r) >= 2 /\ r[1] \in {46, 44} /\ IsDigit(r[2])
                        /\ nxt # ".000"
                     THEN \* a fractional second the layout does not name
                          LET stop == {i \in 3..Len(r) : ~IsDigit(r[i])}
                              n    == IF stop = {} THEN Len(r) ELSE MinOf(stop) - 1
                              f    == parseNanoseconds(r, n)
                          IN  [st EXCEPT !.sec = g.n, !.nsec = f.ns, !.v = Drop(r, n)]
                     ELSE [st EXCEPT !.sec = g.n, !.v = r]
    ELSE IF tok = ".000" THEN
        IF Len(v) < 4 THEN bad
        ELSE LET f == parseNanoseconds(v, 4)
             IN  IF f.ok THEN [st EXCEPT !.nsec = f.ns, !.v = Drop(v, 4)] ELSE bad
    ELSE IF tok = "-0700" THEN
        IF Len(v) < 5 THEN bad
        ELSE ZoneOffset(st, v[1], SubSeq(v, 2, 3), SubSeq(v, 4, 5), Drop(v, 5))
    ELSE IF tok = "Z07:00" THEN
        IF Len(v) >= 1 /\ v[1] = 90 THEN [st EXCEPT !.v = Tail(v)]
        ELSE IF Len(v) < 6 \/ v[4] # 58 THEN bad
        ELSE ZoneOffset(st, v[1], SubSeq(v, 2, 3), SubSeq(v, 5, 6), Drop(v, 6))
    ELSE bad

RECURSIVE ParseChunks(_, _, _)
ParseChunks(st, layout, i) ==
    IF i > Len(layout) THEN st
    ELSE ParseChunks(
            ParseChunk(st, layout[i], IF i < Len(layout) THEN layout[i + 1] ELSE ""),
            layout, i + 1)

\* the end of time.Parse: no text left over and a day the month has
ParsedInstant(st) ==
    IF st.ok /\ Len(st.v) = 0
       /\ st.day >= 1 /\ st.day <= daysIn(st.month, st.year)
    THEN Instant(st.year, st.month, st.day, st.hour, st.min, st.sec,
                 st.nsec, st.zoff)
    ELSE ParseErr

\* time.Parse(layout, value): an instant, or ParseErr
TimeParse(layout, value) ==
    ParsedInstant(ParseChunks(ParseStart(value), layout, 1))

LayoutDate == <<"2006", "-", "01", "-", "02">>                \* "2006-01-02"
LayoutClock == LayoutDate \o <<"T", "15", ":", "04", ":", "05">>

\* the formats ParseJiraDate tries, in order
formats ==
    << LayoutClock \o <<".000", "-0700">>,    \* "2006-01-02T15:04:05.000-0700"
       LayoutClock \o <<".000", "Z">>,        \* "2006-01-02T15:04:05.000Z"
       LayoutClock \o <<"-0700">>,            \* "2006-01-02T15:04:05-0700"
       LayoutClock \o <<"Z">>,                \* "2006-01-02T15:04:05Z"
       LayoutClock \o <<"Z07:00">>,           \* time.RFC3339
       LayoutDate >>

\* regexp (\d{2})(\d{2})$ replaced by "$1:$2"
FixZone(s) ==
    IF Len(s) >= 4 /\ AllDigits(SubSeq(s, Len(s) - 3, Len(s)))
    THEN SubSeq(s, 1, Len(s) - 2) \o <<58>> \o SubSeq(s, Len(s) - 1, Len(s))
    ELSE s

\* the loop over formats: the first result without error, else the retry
FirstParsed(results, retry) ==
    LET hits == {i \in 1..Len(results) : results[i].ok}
    IN  IF hits # {} THEN results[MinOf(hits)] ELSE retry

\* func ParseJiraDate: an instant, or ParseErr
ParseJiraDate(dateStr) ==
    IF dateStr = <<>> THEN ParseErr
    ELSE FirstParsed([i \in 1..Len(formats) |-> TimeParse(formats[i], dateStr)],
                     TimeParse(formats[5], FixZone(dateStr)))

(***************************************************************************)
(* The status classifier and the record normaliser.                        *)
(***************************************************************************)
\* err == nil and t.After(due)
PastDue(due, t) == due.ok /\ After(t, due)

\* func IsOverdue; time.Now() is the variable now
IsOverdue(statusName, targetEnd) ==
    LET status == ToLower(TrimSpace(statusName))
    IN  IF status = sDone \/ status = sResolved THEN FALSE
        ELSE IF targetEnd = <<>> \/ targetEnd = sNone THEN FALSE
        ELSE IF ~Contains(targetEnd, <<84>>)       \* no 'T': a date-only string
             THEN PastDue(TimeParse(LayoutDate, targetEnd),
                          Truncate24h(UTC(now)))
        ELSE PastDue(ParseJiraDate(targetEnd), UTC(now))

TrendingOfOnTrack(statusName) ==
    IF statusName \in {sDone, sClosed, sResolved} THEN sDone
    ELSE IF statusName \in {sNotStarted, sReadyForWork, sVetting, sNew}
    THEN sNotStarted
    ELSE <<111, 110, 32, 116, 114, 97, 99, 107>>      \* "on track"

\* the trending switch of ExtractIssueData
TrendingOf(statusName) ==
    IF statusName \in {sDone, sClosed, sResolved} THEN sDone
    ELSE IF statusName \in {sNotStarted, sReadyForWork, sVetting, sNew}
    THEN sNotStarted
    ELSE statusName

OverdueOverrideKeepsEmoji(emoji, trending, overdue) ==
    IF overdue THEN [Emoji |-> emoji, Trending |-> sOverdue]
    ELSE [Emoji |-> emoji, Trending |-> trending]

\* "override with due date info no matter what status"
OverdueOverride(emoji, trending, overdue) ==
    IF overdue THEN [Emoji |-> eRed, Trending |-> sOverdue]
    ELSE [Emoji |-> emoji, Trending |-> trending]

\* the zero value of IssueComment
NoComment == [Url |-> <<>>, Created |-> <<>>]

\* the id the tracker's field catalog gives "Target end": "customfield_1"
cfTargetEnd == <<99, 117, 115, 116, 111, 109, 102, 105, 101, 108, 100, 95, 49>>

BrowseURLOfServer(serverURL, key) ==
    serverURL \o <<47, 98, 114, 111, 119, 115, 101, 47>>

\* fmt.Sprintf("%s/browse/%s", serverURL, key)
BrowseURL(serverURL, key) ==
    serverURL \o <<47, 98, 114, 111, 119, 115, 101, 47>> \o key

\* func ExtractIssueData.  The payload is the record of the strings getString
\* reads from it ("" for a missing or non-string entry); custom is the value
\* stored under the field id cfTargetEnd.
IssueDataOf(issue, serverURL, parentKey, parentSummary, statusName, targetEnd, tr) ==
    LET issueKey   == issue.key
        assignee   == IF issue.assignee = <<>> THEN sNA ELSE issue.assignee
        priority   == IF issue.priority = <<>> THEN sNone ELSE issue.priority
        issueURL   == BrowseURL(serverURL, issueKey)
        pKey       == IF parentKey = <<>> THEN issueKey ELSE parentKey
        pSummary   == IF parentSummary = <<>> THEN issue.summary ELSE parentSummary
    IN  [Key           |-> issueKey,
         URL           |-> issueURL,
         Summary       |-> issue.summary,
         StatusName    |-> statusName,
         Assignee      |-> assignee,
         Priority      |-> priority,
         Created       |-> issue.created,
         Updated       |-> issue.updated,
         TargetEnd     |-> targetEnd,
         ParentKey     |-> pKey,
         ParentSummary |-> pSummary,
         ParentURL     |-> IF pKey # issueKey THEN BrowseURL(serverURL, pKey)
                           ELSE issueURL,
         Trending      |-> tr.Trending,
         Emoji         |-> tr.Emoji,
         Comment       |-> NoComment]

ExtractIssueDataFieldKnown(issue, serverURL, parentKey, parentSummary) ==
    IssueDataOf(issue, serverURL, parentKey, parentSummary,
                ToLower(TrimSpace(IF issue.status = <<>> THEN sUnknown
                                  ELSE issue.status)),
                issue.custom,
                OverdueOverride(
                    GetStatusEmoji(ToLower(TrimSpace(
                        IF issue.status = <<>> THEN sUnknown ELSE issue.status))),
                    TrendingOf(ToLower(TrimSpace(
                        IF issue.status = <<>> THEN sUnknown ELSE issue.status))),
                    IsOverdue(issue.status, issue.custom)))

\* func ExtractIssueData: the status name, the target end, the trending and
\* the emoji, then the record
ExtractIssueData(issue, serverURL, parentKey, parentSummary) ==
    LET statusName == ToLower(TrimSpace(
                        IF issue.status = <<>> THEN sUnknown ELSE issue.status))
        targetEnd  == IF fieldId # <<>>
                      THEN (IF fieldId = cfTargetEnd THEN issue.custom ELSE <<>>)
                      ELSE <<>>
    IN  IssueDataOf(issue, serverURL, parentKey, parentSummary, statusName,
                    targetEnd,
                    OverdueOverride(GetStatusEmoji(statusName),
                                    TrendingOf(statusName),
                                    IsOverdue(statusName, targetEnd)))

(***************************************************************************)
(* The filter and sort engine.                                             *)
(***************************************************************************)
\* a nil *time.Time in ReportConfig
NilTime == ParseErr

s9999 == <<57, 57, 57, 57, 45, 57, 57, 45, 57, 57>>     \* "9999-99-99"

\* err == nil and !t.Before(cutoff)
ParsedNotBefore(t, cutoff) == t.ok /\ ~Before(t, cutoff)

\* err == nil and t.After(cutoff)
ParsedAfter(t, cutoff) == t.ok /\ After(t, cutoff)

PassesSinceStrictlyAfter(issue, c) ==
    IF c.Since.ok
    THEN /\ issue.Updated # <<>> /\ issue.Updated # sNA
         /\ ParsedAfter(ParseJiraDate(issue.Updated), c.Since)
    ELSE TRUE

\* the since filter: TRUE when the issue is kept
PassesSince(issue, c) ==
    IF c.Since.ok
    THEN /\ issue.Updated # <<>> /\ issue.Updated # sNA
         /\ ParsedNotBefore(ParseJiraDate(issue.Updated), c.Since)
    ELSE TRUE

PassesNoCommentSinceAtCutoff(issue, c) ==
    IF c.NoCommentSince.ok /\ issue.Comment.Created # <<>>
    THEN ~ParsedNotBefore(ParseJiraDate(issue.Comment.Created), c.NoCommentSince)
    ELSE TRUE

\* the "no comment since" filter: TRUE when the issue is kept
PassesNoCommentSince(issue, c) ==
    IF c.NoCommentSince.ok /\ issue.Comment.Created # <<>>
    THEN ~ParsedAfter(ParseJiraDate(issue.Comment.Created), c.NoCommentSince)
    ELSE TRUE

\* the filter loop of filterAndSortIssues
FilterIssues(list, c) ==
    SelectSeq(list, LAMBDA issue :
                        PassesSince(issue, c) /\ PassesNoCommentSince(issue, c))

lessEmptyFirst(a, b) ==
    LET pi == GetStatusPriority(a.StatusName)
        pj == GetStatusPriority(b.StatusName)
    IN  IF pi # pj THEN pi < pj
        ELSE IF a.TargetEnd # b.TargetEnd THEN StrLess(a.TargetEnd, b.TargetEnd)
        ELSE IF a.Updated # b.Updated THEN StrLess(a.Updated, b.Updated)
        ELSE StrLess(a.Summary, b.Summary)

lessOrEqual(a, b) ==
    LET pi == GetStatusPriority(a.StatusName)
        pj == GetStatusPriority(b.StatusName)
        ti == IF a.TargetEnd = <<>> THEN s9999 ELSE a.TargetEnd
        tj == IF b.TargetEnd = <<>> THEN s9999 ELSE b.TargetEnd
    IN  IF pi # pj THEN pi < pj
        ELSE IF ti # tj THEN StrLess(ti, tj)
        ELSE IF a.Updated # b.Updated THEN StrLess(a.Updated, b.Updated)
        ELSE ~StrLess(b.Summary, a.Summary)

\* the less function handed to sort.Slice
less(a, b) ==
    LET pi == GetStatusPriority(a.StatusName)
        pj == GetStatusPriority(b.StatusName)
        ti == IF a.TargetEnd = <<>> THEN s9999 ELSE a.TargetEnd
        tj == IF b.TargetEnd = <<>> THEN s9999 ELSE b.TargetEnd
    IN  IF pi # pj THEN pi < pj
        ELSE IF ti # tj THEN StrLess(ti, tj)
        ELSE IF a.Updated # b.Updated THEN StrLess(a.Updated, b.Updated)
        ELSE StrLess(a.Summary, b.Summary)

\* the inner loop of an insertion sort: data[j] moves down while it is less
\* than its left neighbour
RECURSIVE SiftDown(_, _)
SiftDown(data, j) ==
    IF j > 1 /\ less(data[j], data[j - 1])
    THEN SiftDown([data EXCEPT ![j] = data[j - 1], ![j - 1] = data[j]], j - 1)
    ELSE data

RECURSIVE InsertionSort(_, _)
InsertionSort(data, i) ==
    IF i > Len(data) THEN data ELSE InsertionSort(SiftDown(data, i), i + 1)

\* sort.Slice(filteredIssues, less): for at most 12 elements the library
\* runs an insertion sort
SortSlice(data) == InsertionSort(data, 2)

\* func filterAndSortIssues
filterAndSortIssues(list, c) == SortSlice(FilterIssues(list, c))

(***************************************************************************)
(* The string constants of the renderers.                                  *)
(***************************************************************************)
\* " (today)"
mToday ==
    <<32, 40, 116, 111, 100, 97, 121, 41>>
\* " (1 day ago)"
mOneDay ==
    <<32, 40, 49, 32, 100, 97, 121, 32, 97, 103, 111, 41>>
\* " days ago)"
mDaysAgo ==
    <<32, 100, 97, 121, 115, 32, 97, 103, 111, 41>>
\* "\n| status | parent | issue | assignee | target date | last update |"
mHeadChildren ==
    <<10, 124, 32, 115, 116, 97, 116, 117, 115, 32, 124, 32, 112, 97, 114, 101, 110, 116, 32, 124, 32, 105, 115, 115, 117, 101, 32, 124, 32, 97, 115, 115, 105, 103, 110, 101, 101, 32, 124, 32, 116, 97, 114, 103, 101, 116, 32, 100, 97, 116, 101, 32, 124, 32, 108, 97, 115, 116, 32, 117, 112, 100, 97, 116, 101, 32, 124>>
\* "|---|:--|:--|:--|:--|:--|"
mRuleChildren ==
    <<124, 45, 45, 45, 124, 58, 45, 45, 124, 58, 45, 45, 124, 58, 45, 45, 124, 58, 45, 45, 124, 58, 45, 45, 124>>
\* "\n| status | issue | assignee | target date | last update |"
mHead ==
    <<10, 124, 32, 115, 116, 97, 116, 117, 115, 32, 124, 32, 105, 115, 115, 117, 101, 32, 124, 32, 97, 115, 115, 105, 103, 110, 101, 101, 32, 124, 32, 116, 97, 114, 103, 101, 116, 32, 100, 97, 116, 101, 32, 124, 32, 108, 97, 115, 116, 32, 117, 112, 100, 97, 116, 101, 32, 124>>
\* "|---|:--|:--|:--|:--|"
mRule ==
    <<124, 45, 45, 45, 124, 58, 45, 45, 124, 58, 45, 45, 124, 58, 45, 45, 124, 58, 45, 45, 124>>
\* "* row count: "
mRowCount ==
    <<42, 32, 114, 111, 119, 32, 99, 111, 117, 110, 116, 58, 32>>
\* "\n### "
mTitle ==
    <<10, 35, 35, 35, 32>>
\* "* generated at: "
mGenerated ==
    <<42, 32, 103, 101, 110, 101, 114, 97, 116, 101, 100, 32, 97, 116, 58, 32>>
\* "key in ("
qKeyIn ==
    <<107, 101, 121, 32, 105, 110, 32, 40>>
\* ") order by assignee ASC"
qOrderBy ==
    <<41, 32, 111, 114, 100, 101, 114, 32, 98, 121, 32, 97, 115, 115, 105, 103, 110, 101, 101, 32, 65, 83, 67>>
\* "/issues/?"
qIssues ==
    <<47, 105, 115, 115, 117, 101, 115, 47, 63>>
\* "jql="
qJql ==
    <<106, 113, 108, 61>>

(***************************************************************************)
(* Formatting (fmt.Sprintf, Time.Format).                                  *)
(***************************************************************************)
RECURSIVE Digits(_)
Digits(k) ==
    IF k < 10 THEN <<48 + k>> ELSE Digits(k \div 10) \o <<48 + (k % 10)>>

\* fmt.Sprintf("%d", k)
Itoa(k) == IF k < 0 THEN <<45>> \o Digits(-k) ELSE Digits(k)

\* a number zero-padded to w digits
RECURSIVE Pad(_, _)
Pad(k, w) == IF w <= 0 THEN <<>> ELSE Pad(k \div 10, w - 1) \o <<48 + (k % 10)>>

\* the civil date [year, month, day] of a day number (days since 0001-01-01)
CivilFromDays(days) ==
    LET n400 == days \div 146097
        r400 == days % 146097
        c    == r400 \div 36524
        n100 == IF c > 3 THEN 3 ELSE c
        r100 == r400 - n100 * 36524
        n4   == r100 \div 1461
        r4   == r100 % 1461
        q    == r4 \div 365
        n1   == IF q > 3 THEN 3 ELSE q
        yday == r4 - n1 * 365
        y    == 400 * n400 + 100 * n100 + 4 * n4 + n1 + 1
        m    == CHOOSE k \in 1..12 :
                    /\ DaysBeforeMonth(k, y) <= yday
                    /\ yday < DaysBeforeMonth(k, y) + daysIn(k, y)
    IN  [year |-> y, month |-> m, day |-> yday - DaysBeforeMonth(m, y) + 1]

\* the wall clock of an instant in the zone it is displayed in
WallClock(t) ==
    LET secs == t.s + t.z
        date == CivilFromDays(t.d + (secs \div 86400))
        sod  == secs % 86400
    IN  [year |-> date.year, month |-> date.month, day |-> date.day,
         hour |-> sod \div 3600, min |-> (sod % 3600) \div 60, sec |-> sod % 60]

\* "2006-01-02" of a wall clock
DayText(w) ==
    Pad(w.year, 4) \o <<45>> \o Pad(w.month, 2) \o <<45>> \o Pad(w.day, 2)

\* the layout element "Z07:00" of a zone offset in seconds: "Z" for the
\* offset 0, else the sign and the whole minutes of the offset as hh:mm
ZoneText(offset) ==
    LET zone == IF offset < 0 THEN -((-offset) \div 60) ELSE offset \div 60
        mins == IF zone < 0 THEN -zone ELSE zone
    IN  IF offset = 0 THEN <<90>>
        ELSE (IF zone < 0 THEN <<45>> ELSE <<43>>)
             \o Pad(mins \div 60, 2) \o <<58>> \o Pad(mins % 60, 2)

\* "2006-01-02T15:04:05Z07:00" of a wall clock in the zone of that offset
RFC3339Text(w, offset) ==
    DayText(w) \o <<84>> \o Pad(w.hour, 2) \o <<58>> \o Pad(w.min, 2)
    \o <<58>> \o Pad(w.sec, 2) \o ZoneText(offset)

\* t.Format("2006-01-02")
FormatDay(t) == DayText(WallClock(t))

\* t.Format(time.RFC3339), in the zone the time is displayed in
FormatRFC3339(t) == RFC3339Text(WallClock(t), t.z)

\* the end of FormatDate: the string itself when it did not parse
FormatParsed(t, dateStr) == IF ~t.ok THEN dateStr ELSE FormatDay(t)

\* func FormatDate
FormatDate(dateStr) ==
    IF dateStr = <<>> THEN sNA
    ELSE FormatParsed(ParseJiraDate(dateStr), dateStr)

\* "[text](url)"
MdLink(text, url) == <<91>> \o text \o <<93, 40>> \o url \o <<41>>

\* a - b for a not before b, as whole days, seconds of the day and
\* nanoseconds of the second
Elapsed(a, b) ==
    LET n == a.n - b.n
        s == (a.s - b.s) - (IF n < 0 THEN 1 ELSE 0)
    IN  [d |-> (a.d - b.d) - (IF s < 0 THEN 1 ELSE 0),
         s |-> IF s < 0 THEN s + 86400 ELSE s,
         n |-> IF n < 0 THEN n + 1000000000 ELSE n]

\* the greatest Duration, 2^63 - 1 nanoseconds: 106751 days, 85636 seconds
\* and 854775807 nanoseconds
maxDuration == [d |-> 106751, s |-> 85636, n |-> 854775807]

\* Time.Sub: the Duration a - b as a sign and a size, the size no more than
\* maxDuration (below zero one nanosecond more, minDuration)
Sub(a, b) ==
    LET neg  == Before(a, b)
        e    == IF neg THEN Elapsed(b, a) ELSE Elapsed(a, b)
        over == \/ e.d > maxDuration.d
                \/ e.d = maxDuration.d /\ e.s > maxDuration.s
                \/ e.d = maxDuration.d /\ e.s = maxDuration.s
                   /\ e.n > maxDuration.n
    IN  IF ~over THEN [neg |-> neg, d |-> e.d, s |-> e.s, n |-> e.n]
        ELSE [neg |-> neg, d |-> maxDuration.d, s |-> maxDuration.s,
              n |-> maxDuration.n + (IF neg THEN 1 ELSE 0)]

\* float64 rounding in delta.Hours() / 24: a Duration of at most this many
\* nanoseconds less than m whole days gives the quotient m exactly (half
\* the distance of the float64 values just below 24 * m hours)
RoundUpGap(m) ==
    IF m <= 170 THEN 0
    ELSE IF m <= 341 THEN 1
    ELSE IF m <= 682 THEN 3
    ELSE IF m <= 1365 THEN 6
    ELSE IF m <= 2730 THEN 13
    ELSE IF m <= 5461 THEN 26
    ELSE IF m <= 10922 THEN 52
    ELSE IF m <= 21845 THEN 104
    ELSE IF m <= 43690 THEN 209
    ELSE IF m <= 87381 THEN 419
    ELSE 838

\* int(delta.Hours() / 24) of a Duration: its days, truncated toward zero
\* after the float64 division
DurationDays(delta) ==
    LET m == IF /\ delta.s = 86399
                /\ 1000000000 - delta.n <= RoundUpGap(delta.d + 1)
             THEN delta.d + 1 ELSE delta.d
    IN  IF delta.neg THEN -m ELSE m

\* int(now.Sub(t.UTC()).Hours() / 24)
DaysAgo(t) == DurationDays(Sub(UTC(now), UTC(t)))

\* the switch on daysAgo
DaysText(daysAgo) ==
    IF daysAgo = 0 THEN mToday
    ELSE IF daysAgo = 1 THEN mOneDay
    ELSE <<32, 40>> \o Itoa(daysAgo) \o mDaysAgo

\* the end of FormatTimestampWithLink, t the parsed timestamp
TimestampLink(t, timestamp, issueURL, includeDaysAgo) ==
    IF ~t.ok THEN timestamp
    ELSE MdLink(FormatDay(t)
                  \o (IF includeDaysAgo THEN DaysText(DaysAgo(t)) ELSE <<>>),
                issueURL)

\* func FormatTimestampWithLink
FormatTimestampWithLink(timestamp, issueURL, includeDaysAgo) ==
    IF timestamp = <<>> \/ timestamp = sNA \/ issueURL = <<>> THEN sNA
    ELSE TimestampLink(ParseJiraDate(timestamp), timestamp, issueURL,
                       includeDaysAgo)

(***************************************************************************)
(* The renderers.                                                          *)
(***************************************************************************)
\* emoji, a space, trending
StatusWithEmoji(issue) == issue.Emoji \o <<32>> \o issue.Trending

\* "| c1 | c2 | ... |"
MdRow(cells) == <<124, 32>> \o Join(cells, <<32, 124, 32>>) \o <<32, 124>>

\* one table row of RenderMarkdownReport: the parent link is a cell only
\* when children are shown
MarkdownRow(issue, c) ==
    LET issueLink     == MdLink(issue.Summary, issue.URL)
        targetEnd     == FormatDate(issue.TargetEnd)
        timestampLink == FormatTimestampWithLink(issue.Comment.Created,
                                                 issue.Comment.Url, FALSE)
        parentLink    == MdLink(issue.ParentKey, issue.ParentURL)
    IN  MdRow(<<StatusWithEmoji(issue)>>
              \o (IF c.ShowChildren THEN <<parentLink>> ELSE <<>>)
              \o <<issueLink, issue.Assignee, targetEnd, timestampLink>>)

\* the two header lines of the markdown table
MarkdownHeader(c) ==
    IF c.ShowChildren
    THEN << mHeadChildren,
            mRuleChildren >>
    ELSE << mHead,
            mRule >>

MarkdownCountLine(k) == mRowCount \o Itoa(k)

\* RenderMarkdownReport after its call of filterAndSortIssues: the lines for
\* rowCount rows, joined
MarkdownLines(sorted, rowCount, c) ==
    LET result ==
            << mTitle \o c.Title,
               mGenerated \o FormatRFC3339(now),
               MarkdownCountLine(rowCount) >>
            \o MarkdownHeader(c)
            \o [i \in 1..Len(sorted) |-> MarkdownRow(sorted[i], c)]
            \o << <<10>> >>
    IN  Join(result, <<10>>)

\* len(issues) after issues = filterAndSortIssues(issues, cfg)
MarkdownOf(sorted, c) == MarkdownLines(sorted, Len(sorted), c)

RenderMarkdownReportCountsInput(list, c) ==
    MarkdownLines(filterAndSortIssues(list, c), Len(list), c)

\* func RenderMarkdownReport
RenderMarkdownReport(list, c) ==
    MarkdownOf(filterAndSortIssues(list, c), c)

\* const csvSep: the one-rune string U+1F431
csvSep == <<128049>>

\* strings.ReplaceAll(s, `"`, `""`)
RECURSIVE DoubleQuotes(_)
DoubleQuotes(s) ==
    IF Len(s) = 0 THEN <<>>
    ELSE IF s[1] = 34 THEN <<34, 34>> \o DoubleQuotes(Tail(s))
    ELSE <<s[1]>> \o DoubleQuotes(Tail(s))

escapeCSVFieldQuotesKept(s) ==
    IF Contains(s, csvSep) \/ Contains(s, <<10>>) \/ Contains(s, <<34>>)
    THEN <<34>> \o s \o <<34>>
    ELSE s

\* func escapeCSVField
escapeCSVField(s) ==
    IF Contains(s, csvSep) \/ Contains(s, <<10>>) \/ Contains(s, <<34>>)
    THEN <<34>> \o DoubleQuotes(s) \o <<34>>
    ELSE s

\* the header cells of RenderCSVReport
CSVHeaderCells(c) ==
    IF c.ShowChildren
    THEN << <<115, 116, 97, 116, 117, 115>>, <<112, 97, 114, 101, 110, 116>>, <<105, 115, 115, 117, 101>>,
            <<97, 115, 115, 105, 103, 110, 101, 101>>,
            <<116, 97, 114, 103, 101, 116, 32, 100, 97, 116, 101>>,
            <<108, 97, 115, 116, 32, 117, 112, 100, 97, 116, 101>> >>
    ELSE << <<115, 116, 97, 116, 117, 115>>, <<105, 115, 115, 117, 101>>,
            <<97, 115, 115, 105, 103, 110, 101, 101>>,
            <<116, 97, 114, 103, 101, 116, 32, 100, 97, 116, 101>>,
            <<108, 97, 115, 116, 32, 117, 112, 100, 97, 116, 101>> >>

\* the cells of one issue's row in RenderCSVReport: the parent key is a cell
\* only when children are shown
CSVRowCells(issue, c) ==
    LET statusWithEmoji == StatusWithEmoji(issue)
        targetEnd       == FormatDate(issue.TargetEnd)
        lastUpdate      == IF issue.Comment.Created = <<>> THEN sNA
                           ELSE issue.Comment.Created
    IN  <<statusWithEmoji>>
        \o (IF c.ShowChildren THEN <<issue.ParentKey>> ELSE <<>>)
        \o <<issue.Summary, issue.Assignee, targetEnd, lastUpdate>>

\* strings.Join of the escaped cells with csvSep
CSVLine(cells) ==
    Join([i \in 1..Len(cells) |-> escapeCSVField(cells[i])], csvSep)

\* the row lines of RenderCSVReport
CSVLines(sorted, c) ==
    [i \in 1..Len(sorted) |-> CSVLine(CSVRowCells(sorted[i], c))]

\* func RenderCSVReport
RenderCSVReport(list, c) ==
    LET result == <<CSVLine(CSVHeaderCells(c))>>
                  \o CSVLines(filterAndSortIssues(list, c), c)
    IN  Join(result, <<10>>)

\* the UTF-8 bytes of a code point
UTF8Rune(c) ==
    IF c < 128 THEN <<c>>
    ELSE IF c < 2048 THEN <<192 + (c \div 64), 128 + (c % 64)>>
    ELSE IF c < 65536
    THEN <<224 + (c \div 4096), 128 + ((c \div 64) % 64), 128 + (c % 64)>>
    ELSE <<240 + (c \div 262144), 128 + ((c \div 4096) % 64),
           128 + ((c \div 64) % 64), 128 + (c % 64)>>

\* the UTF-8 bytes of a string
RECURSIVE UTF8(_)
UTF8(s) == IF Len(s) = 0 THEN <<>> ELSE UTF8Rune(Head(s)) \o UTF8(Tail(s))

HexDigit(k) == IF k < 10 THEN 48 + k ELSE 55 + k

\* url.QueryEscape of one byte: letters, digits and - _ . ~ stay, a space
\* becomes +, every other byte becomes %XX
EscapeByte(b) ==
    IF \/ (b >= 65 /\ b <= 90) \/ (b >= 97 /\ b <= 122) \/ IsDigit(b)
       \/ b \in {45, 95, 46, 126}
    THEN <<b>>
    ELSE IF b = 32 THEN <<43>>
    ELSE <<37, HexDigit(b \div 16), HexDigit(b % 16)>>

RECURSIVE EscapeBytes(_)
EscapeBytes(bs) ==
    IF Len(bs) = 0 THEN <<>> ELSE EscapeByte(Head(bs)) \o EscapeBytes(Tail(bs))

\* url.QueryEscape
QueryEscape(s) == EscapeBytes(UTF8(s))

\* the keys of the issues, in order
KeysOf(list) == [i \in 1..Len(list) |-> list[i].Key]

KeyInJQLNoSpace(keys) ==
    qKeyIn \o Join(keys, <<44>>) \o qOrderBy

\* fmt.Sprintf("key in (%s) order by assignee ASC", strings.Join(keys, ", "))
KeyInJQL(keys) ==
    qKeyIn \o Join(keys, <<44, 32>>)
    \o qOrderBy

\* RenderURLReport after its call of filterAndSortIssues
URLOf(serverURL, sorted) ==
    IF Len(sorted) = 0 THEN <<>>
    ELSE TrimSuffixSlash(serverURL)
         \o qIssues
         \o qJql \o QueryEscape(KeyInJQL(KeysOf(sorted)))

\* func RenderURLReport
RenderURLReport(serverURL, list, c) ==
    URLOf(serverURL, filterAndSortIssues(list, c))

\* encoding/json: a lower-case hexadecimal digit
JSONHex(k) == IF k < 10 THEN 48 + k ELSE 87 + k

\* encoding/json, a string's code point as json.Marshal writes it: the quote,
\* the backslash and the control characters escaped, and <, > and & as \u00XX
JSONRune(c) ==
    IF c = 34 THEN <<92, 34>>
    ELSE IF c = 92 THEN <<92, 92>>
    ELSE IF c = 8 THEN <<92, 98>>
    ELSE IF c = 12 THEN <<92, 102>>
    ELSE IF c = 10 THEN <<92, 110>>
    ELSE IF c = 13 THEN <<92, 114>>
    ELSE IF c = 9 THEN <<92, 116>>
    ELSE IF c < 32 \/ c \in {60, 62, 38}
    THEN <<92, 117, 48, 48, JSONHex(c \div 16), JSONHex(c % 16)>>
    ELSE IF c \in {8232, 8233} THEN <<92, 117, 50, 48, 50, JSONHex(c % 16)>>
    ELSE <<c>>

\* encoding/json: the escaped code points lo to hi of a string, one after
\* the other
RECURSIVE JSONRunes(_, _, _)
JSONRunes(str, lo, hi) ==
    IF lo > hi THEN <<>>
    ELSE IF lo = hi THEN JSONRune(str[lo])
    ELSE JSONRunes(str, lo, (lo + hi) \div 2)
         \o JSONRunes(str, (lo + hi) \div 2 + 1, hi)

\* encoding/json: a string value
JSONString(str) ==
    <<34>> \o JSONRunes(str, 1, Len(str)) \o <<34>>

\* encoding/json: an IssueData value, its fields in declaration order under
\* their Go names
JSONIssue(issue) ==
    <<123, 34, 75, 101, 121, 34, 58>>
        \o JSONString(issue.Key)
    \o <<44, 34, 85, 82, 76, 34, 58>>
        \o JSONString(issue.URL)
    \o <<44, 34, 83, 117, 109, 109, 97, 114, 121, 34, 58>>
        \o JSONString(issue.Summary)
    \o <<44, 34, 83, 116, 97, 116, 117, 115, 78, 97, 109, 101, 34, 58>>
        \o JSONString(issue.StatusName)
    \o <<44, 34, 65, 115, 115, 105, 103, 110, 101, 101, 34, 58>>
        \o JSONString(issue.Assignee)
    \o <<44, 34, 80, 114, 105, 111, 114, 105, 116, 121, 34, 58>>
        \o JSONString(issue.Priority)
    \o <<44, 34, 67, 114, 101, 97, 116, 101, 100, 34, 58>>
        \o JSONString(issue.Created)
    \o <<44, 34, 85, 112, 100, 97, 116, 101, 100, 34, 58>>
        \o JSONString(issue.Updated)
    \o <<44, 34, 84, 97, 114, 103, 101, 116, 69, 110, 100, 34, 58>>
        \o JSONString(issue.TargetEnd)
    \o <<44, 34, 80, 97, 114, 101, 110, 116, 75, 101, 121, 34, 58>>
        \o JSONString(issue.ParentKey)
    \o <<44, 34, 80, 97, 114, 101, 110, 116, 83, 117, 109, 109, 97, 114, 121, 34, 58>>
        \o JSONString(issue.ParentSummary)
    \o <<44, 34, 80, 97, 114, 101, 110, 116, 85, 82, 76, 34, 58>>
        \o JSONString(issue.ParentURL)
    \o <<44, 34, 84, 114, 101, 110, 100, 105, 110, 103, 34, 58>>
        \o JSONString(issue.Trending)
    \o <<44, 34, 69, 109, 111, 106, 105, 34, 58>>
        \o JSONString(issue.Emoji)
    \o <<44, 34, 67, 111, 109, 109, 101, 110, 116, 34, 58, 123, 34, 85, 114, 108, 34, 58>>
        \o JSONString(issue.Comment.Url)
    \o <<44, 34, 67, 114, 101, 97, 116, 101, 100, 34, 58>>
        \o JSONString(issue.Comment.Created)
    \o <<125, 125>>

\* json.Marshal of the filtered list: null for the nil slice
JSONOf(sorted) ==
    IF Len(sorted) = 0 THEN <<110, 117, 108, 108>>
    ELSE <<91>> \o Join([i \in 1..Len(sorted) |-> JSONIssue(sorted[i])], <<44>>)
         \o <<93>>

\* func RenderJSONReport
RenderJSONReport(list, c) ==
    JSONOf(filterAndSortIssues(list, c))

\* RenderSlackReport: the line of the i-th issue
SlackLine(i, issue) ==
    Itoa(i) \o <<46, 32>> \o issue.Emoji \o <<32>>
    \o MdLink(issue.Summary, issue.URL)
    \o <<44, 32, 40, 100, 117, 101, 32>> \o FormatDate(issue.TargetEnd) \o <<41>>
    \o (IF issue.Comment.Url # <<>>
        THEN <<32, 40>> \o MdLink(<<108, 97, 115, 116, 32, 117, 112, 100, 97, 116, 101>>, issue.Comment.Url) \o <<41>>
        ELSE <<>>)

\* RenderSlackReport after filterAndSortIssues
SlackOf(sorted) ==
    Join([i \in 1..Len(sorted) |-> SlackLine(i, sorted[i])], <<10>>)

\* func RenderSlackReport
RenderSlackReport(list, c) ==
    SlackOf(filterAndSortIssues(list, c))

(***************************************************************************)
(* The aggregation driver's comment attachment and the run's settings.     *)
(***************************************************************************)
\* "?focusedId="
qFocused ==
    <<63, 102, 111, 99, 117, 115, 101, 100, 73, 100, 61>>
\* "&page=com.atlassian.jira.plugin.system.issuetabpanels%3Acomment-tabpanel#comment-"
qPanel ==
    <<38, 112, 97, 103, 101, 61, 99, 111, 109, 46, 97, 116, 108, 97, 115, 115, 105, 97, 110, 46, 106, 105, 114, 97, 46, 112, 108, 117, 103, 105, 110, 46, 115, 121, 115, 116, 101, 109, 46, 105, 115, 115, 117, 101, 116, 97, 98, 112, 97, 110, 101, 108, 115, 37, 51, 65, 99, 111, 109, 109, 101, 110, 116, 45, 116, 97, 98, 112, 97, 110, 101, 108, 35, 99, 111, 109, 109, 101, 110, 116, 45>>

\* the comment GenerateReport attaches from a comment payload [id, created, updated]
AttachComment(issue, commentJson) ==
    [issue EXCEPT !.Comment =
        [Url     |-> issue.URL \o qFocused \o commentJson.id \o qPanel
                     \o commentJson.id,
         Created |-> commentJson.updated]]

\* NewJiraClient: the server URL the client keeps
ClientServer(envServer) == TrimRightSlash(envServer)

\* os.Exit(1): main ends, no ReportConfig is built and no report generated
Exit1 == "exit"

\* main: time.Parse("2006-01-02", *sinceStr) returns an error
SinceRejected(sinceStr) ==
    sinceStr # <<>> /\ ~TimeParse(LayoutDate, sinceStr).ok

\* main: the --since flag, a date, becomes ReportConfig.Since; a value that
\* is no date ends the program
SinceOf(sinceStr) ==
    IF sinceStr = <<>> THEN NilTime
    ELSE IF SinceRejected(sinceStr) THEN Exit1
    ELSE UTC(TimeParse(LayoutDate, sinceStr))

\* main: the --needs-update flag, a number of days, becomes
\* ReportConfig.NoCommentSince
NoCommentSinceOf(needsUpdate) ==
    IF needsUpdate > 0 THEN [UTC(now) EXCEPT !.d = @ - needsUpdate]
    ELSE NilTime

\* "Snippets!"
sSnippets == <<83, 110, 105, 112, 112, 101, 116, 115, 33>>

\* main: the ReportConfig of the run
ReportConfig(children, sinceStr, needsUpdate) ==
    [Title          |-> sSnippets,
     ShowChildren   |-> children,
     Since          |-> SinceOf(sinceStr),
     NoCommentSince |-> NoCommentSinceOf(needsUpdate),
     OutputFile     |-> <<>>,
     JSONOutput     |-> FALSE,
     CSVOutput      |-> FALSE,
     SlackOutput    |-> FALSE,
     URLOutput      |-> FALSE,
     JQLQuery       |-> <<>>]

\* main: the output flags and the query of the run's ReportConfig
WithOutput(c, json, csv, slack, url, jql) ==
    [c EXCEPT !.JSONOutput = json, !.CSVOutput = csv, !.SlackOutput = slack,
              !.URLOutput = url, !.JQLQuery = jql]

DispatchCSVFirst(c) ==
    IF c.CSVOutput THEN "csv"
    ELSE IF c.JSONOutput THEN "json"
    ELSE IF c.SlackOutput THEN "slack"
    ELSE IF c.URLOutput THEN "url"
    ELSE "markdown"

\* GenerateReport: the renderer the if-chain on the output flags calls
Dispatch(c) ==
    IF c.JSONOutput THEN "json"
    ELSE IF c.CSVOutput THEN "csv"
    ELSE IF c.SlackOutput THEN "slack"
    ELSE IF c.URLOutput THEN "url"
    ELSE "markdown"

\* GenerateReport: what the renderer called returns
RenderBy(kind, list, c) ==
    IF kind = "json" THEN RenderJSONReport(list, c)
    ELSE IF kind = "csv" THEN RenderCSVReport(list, c)
    ELSE IF kind = "slack" THEN RenderSlackReport(list, c)
    ELSE IF kind = "url" THEN RenderURLReport(server, list, c)
    ELSE RenderMarkdownReport(list, c)

\* GenerateReport: issuesToRender
IssuesToRender(parents, children, c) ==
    IF c.ShowChildren THEN children ELSE parents

(***************************************************************************)
(* The tracker client: the most recent comment, the custom field lookup    *)
(* and the paged search.                                                   *)
(***************************************************************************)
\* findLatestComment: the loop from index i on, latest being the index of
\* the comment kept so far
RECURSIVE LatestFrom(_, _, _)
LatestFrom(comments, i, latest) ==
    IF i > Len(comments) THEN latest
    ELSE LatestFrom(comments, i + 1,
                    IF StrLess(comments[latest].created, comments[i].created)
                    THEN i ELSE latest)

findLatestCommentLastOfEqual(comments) ==
    IF Len(comments) = 0 THEN Nil
    ELSE comments[CHOOSE i \in 1..Len(comments) :
                    /\ \A j \in 1..Len(comments) :
                         ~StrLess(comments[i].created, comments[j].created)
                    /\ \A j \in (i + 1)..Len(comments) :
                         comments[j].created # comments[i].created]

\* func findLatestComment
findLatestComment(comments) ==
    IF Len(comments) = 0 THEN Nil
    ELSE comments[LatestFrom(comments, 2, 1)]

\* "Target end"
sTargetEnd == <<84, 97, 114, 103, 101, 116, 32, 101, 110, 100>>

\* loadCustomFields, its inner loop: the id of the first field of the
\* catalog named name, from index i on; id is the value kept if none is
RECURSIVE FieldIdFrom(_, _, _, _)
FieldIdFrom(fields, name, i, id) ==
    IF i > Len(fields) THEN id
    ELSE IF fields[i].name = name THEN fields[i].id
    ELSE FieldIdFrom(fields, name, i + 1, id)

\* func loadCustomFields on customFields: the new value of
\* customFields["Target end"]; fields is the answer to the field request,
\* Nil when the request failed
loadCustomFields(fields, id) ==
    IF fields = Nil THEN id ELSE FieldIdFrom(fields, sTargetEnd, 1, id)

\* const defaultPageSize
defaultPageSize == 50

\* the built-in min
Min(a, b) == IF a < b THEN a ELSE b

\* SearchIssues: the two break conditions of the loop
LoopBreaks(accumulated, total, requested, fetched, size) ==
    \/ accumulated >= total
    \/ accumulated >= requested
    \/ fetched < size

NextPageSizeDefault(requested, accumulated) == defaultPageSize

\* SearchIssues: pageSize = min(defaultPageSize, remaining)
NextPageSize(requested, accumulated) ==
    Min(defaultPageSize, requested - accumulated)

SearchFailedKeepsPages(all) == [ok |-> FALSE, issues |-> all]

\* SearchIssues: return nil, err
SearchFailed(all) == [ok |-> FALSE, issues |-> <<>>]

\* SearchIssues: the value returned after the loop
SearchReturns(all, requested) ==
    [ok |-> TRUE,
     issues |-> IF Len(all) > requested THEN SubSeq(all, 1, requested) ELSE all]

(***************************************************************************)
(* GenerateReport: the fetches, the comment lookup and the attachment.     *)
(* The tracker is a record: hits, the payloads the JQL query matches, and  *)
(* byKey, for every issue key the tracker knows its payload, the keys of   *)
(* its subtasks, its links and its comments.  A map or nil (a link's       *)
(* outwardIssue and inwardIssue) is a sequence of at most one key.         *)
(***************************************************************************)
\* func GetIssue (part_000), the request answered: the record of the payload
GetIssue(t, key, parentKey, parentSummary) ==
    ExtractIssueData(t.byKey[key].issue, server, parentKey, parentSummary)

\* the outcomes of the issue requests for a list of referenced keys: a
\* request can succeed only for a key the tracker knows
OutcomeVectors(t, refs) ==
    { oks \in [1..Len(refs) -> BOOLEAN] :
        \A i \in 1..Len(refs) : oks[i] => refs[i] \in DOMAIN t.byKey }

RECURSIVE ChildrenUntilFailure(_, _, _, _, _, _)
ChildrenUntilFailure(t, refs, oks, i, parentKey, parentSummary) ==
    IF i > Len(refs) \/ (refs[i] # <<>> /\ ~oks[i]) THEN <<>>
    ELSE (IF refs[i] # <<>>
          THEN <<GetIssue(t, refs[i], parentKey, parentSummary)>>
          ELSE <<>>)
         \o ChildrenUntilFailure(t, refs, oks, i + 1, parentKey, parentSummary)

\* GetSubtasks and GetLinkedIssues, the loop over the referenced keys from
\* index i on: the record of every non-empty key whose request succeeds
RECURSIVE ChildrenFrom(_, _, _, _, _, _)
ChildrenFrom(t, refs, oks, i, parentKey, parentSummary) ==
    IF i > Len(refs) THEN <<>>
    ELSE (IF refs[i] # <<>> /\ oks[i]
          THEN <<GetIssue(t, refs[i], parentKey, parentSummary)>>
          ELSE <<>>)
         \o ChildrenFrom(t, refs, oks, i + 1, parentKey, parentSummary)

\* the requests that loop makes, each with its outcome
RECURSIVE RequestsFrom(_, _, _)
RequestsFrom(refs, oks, i) ==
    IF i > Len(refs) THEN <<>>
    ELSE (IF refs[i] # <<>>
          THEN <<[key |-> refs[i], ok |-> oks[i], role |-> "child"]>>
          ELSE <<>>)
         \o RequestsFrom(refs, oks, i + 1)

\* GetSubtasks and GetLinkedIssues: the parent summary handed to GetIssue
SummaryOr(t, parentKey, parentSummary) ==
    IF parentSummary = <<>> THEN t.byKey[parentKey].issue.summary
    ELSE parentSummary

\* GetSubtasks: the keys of the subtask references; none when the request
\* for the parent failed
SubtaskKeys(t, parentKey, parentOk) ==
    IF parentOk THEN t.byKey[parentKey].subtasks ELSE <<>>

\* GetLinkedIssues: the key of a link's outwardIssue, of its inwardIssue
\* when it has no outwardIssue
LinkedKey(link) ==
    IF link.outward # <<>> THEN link.outward[1]
    ELSE IF link.inward # <<>> THEN link.inward[1]
    ELSE <<>>

\* GetLinkedIssues: the keys of the links; none when the request for the
\* parent failed
LinkedKeys(t, parentKey, parentOk) ==
    IF parentOk
    THEN [i \in 1..Len(t.byKey[parentKey].links) |->
            LinkedKey(t.byKey[parentKey].links[i])]
    ELSE <<>>

\* GetSubtasks and GetLinkedIssues after the request for the parent
ChildrenOf(t, refs, oks, parentKey, parentSummary) ==
    IF Len(refs) = 0 THEN <<>>
    ELSE ChildrenFrom(t, refs, oks, 1, parentKey,
                      SummaryOr(t, parentKey, parentSummary))

\* GenerateReport: allKeys
AllKeys(parents, children) == KeysOf(parents) \o KeysOf(children)

\* GetMostRecentComments with its request answered: the latest comment of
\* every key that has comments
GetMostRecentComments(t, keys) ==
    [k \in { key \in {keys[i] : i \in 1..Len(keys)} \cap DOMAIN t.byKey :
               Len(t.byKey[key].comments) > 0 } |->
        findLatestComment(t.byKey[k].comments)]

CommentOfAnyKey(issue, comments) ==
    IF issue.Key \in DOMAIN comments
    THEN AttachComment(issue, comments[issue.Key])
    ELSE IF DOMAIN comments # {}
    THEN AttachComment(issue, comments[CHOOSE k \in DOMAIN comments : TRUE])
    ELSE issue

\* GenerateReport, the body of the attachment loop: the record with the
\* comment of its key, unchanged when the map has no entry for the key
CommentOf(issue, comments) ==
    IF issue.Key \in DOMAIN comments
    THEN AttachComment(issue, comments[issue.Key])
    ELSE issue

\* GetIssuesFromQuery: the records of the payloads SearchIssues returned
QueriedIssues(payloads) ==
    [i \in 1..Len(payloads) |-> ExtractIssueData(payloads[i], server, <<>>, <<>>)]

\* GenerateReport: where the run goes once the parents are there
AfterParents(c, parents) ==
    IF c.ShowChildren /\ Len(parents) > 0 THEN "children" ELSE "comments"

(***************************************************************************)
(* Inputs: the strings and instants the specifications draw from.          *)
(***************************************************************************)
rDone == <<68, 111, 110, 101>>
    \* "Done"
rClosedPadded == <<32, 67, 76, 79, 83, 69, 68, 32>>
    \* " CLOSED "
rResolved == <<82, 101, 115, 111, 108, 118, 101, 100>>
    \* "Resolved"
rClosed == <<99, 108, 111, 115, 101, 100>>
    \* "closed"
rInProgress == <<73, 110, 32, 80, 114, 111, 103, 114, 101, 115, 115>>
    \* "In Progress"
rAtRisk == <<65, 116, 32, 82, 105, 115, 107>>
    \* "At Risk"
rBlocked == <<66, 108, 111, 99, 107, 101, 100>>
    \* "Blocked"
rOverdue == <<79, 118, 101, 114, 100, 117, 101>>
    \* "Overdue"
rNew == <<78, 101, 119>>
    \* "New"
rTriage == <<84, 114, 105, 97, 103, 101>>
    \* "Triage"
rBlockedKelvin == <<66, 76, 79, 67, 8490, 69, 68>>
    \* "BLOC\u212AED", the K a Kelvin sign: lower-cased "blocked"
rDoneWide == <<12288, 68, 111, 110, 101>>
    \* "\u3000Done", behind an ideographic space: trimmed "Done"
d20200101 == <<50, 48, 50, 48, 45, 48, 49, 45, 48, 49>>
    \* "2020-01-01"
d20200102 == <<50, 48, 50, 48, 45, 48, 49, 45, 48, 50>>
    \* "2020-01-02"
d20300615 == <<50, 48, 51, 48, 45, 48, 54, 45, 49, 53>>
    \* "2030-06-15"
tNoon == <<50, 48, 50, 48, 45, 48, 49, 45, 48, 49, 84, 49, 50, 58, 48, 48, 58, 48, 48, 46, 48, 48, 48, 43, 48, 48, 48, 48>>
    \* "2020-01-01T12:00:00.000+0000"
tSoon == <<115, 111, 111, 110>>
    \* "soon"
tZoned == <<50, 48, 49, 57, 45, 49, 50, 45, 51, 49, 84, 50, 51, 58, 48, 48, 58, 48, 48, 46, 48, 48, 48, 45, 48, 50, 48, 48>>
    \* "2019-12-31T23:00:00.000-0200"
kA1 == <<65, 45, 49>>
    \* "A-1"
kA2 == <<65, 45, 50>>
    \* "A-2"
kA3 == <<65, 45, 51>>
    \* "A-3"
kA4 == <<65, 45, 52>>
    \* "A-4"
kP1 == <<80, 45, 49>>
    \* "P-1"
sParent == <<80, 97, 114, 101, 110, 116>>
    \* "Parent"
uServer == <<104, 116, 116, 112, 115, 58, 47, 47, 106, 105, 114, 97, 46, 101, 120, 97, 109, 112, 108, 101>>
    \* "https://jira.example"
sA == <<97>>
    \* "a"
sB == <<98>>
    \* "b"

uAt == <<50, 48, 50, 53, 45, 48, 53, 45, 50, 48, 84, 48, 48, 58, 48, 48, 58, 48, 48, 46, 48, 48, 48, 43, 48, 48, 48, 48>>
    \* "2025-05-20T00:00:00.000+0000"
uBefore == <<50, 48, 50, 53, 45, 48, 53, 45, 49, 57, 84, 50, 51, 58, 53, 57, 58, 53, 57, 46, 57, 57, 57, 43, 48, 48, 48, 48>>
    \* "2025-05-19T23:59:59.999+0000"
uAfter == <<50, 48, 50, 53, 45, 48, 53, 45, 50, 49, 84, 48, 57, 58, 49, 53, 58, 48, 48, 46, 48, 48, 48, 43, 48, 48, 48, 48>>
    \* "2025-05-21T09:15:00.000+0000"
uZoned == <<50, 48, 50, 53, 45, 48, 53, 45, 50, 48, 84, 48, 49, 58, 48, 48, 58, 48, 48, 46, 48, 48, 48, 43, 48, 50, 48, 48>>
    \* "2025-05-20T01:00:00.000+0200"
uJunk == <<121, 101, 115, 116, 101, 114, 100, 97, 121>>
    \* "yesterday"
dSince == <<50, 48, 50, 53, 45, 48, 53, 45, 50, 48>>
    \* "2025-05-20"
cAt == <<50, 48, 50, 53, 45, 48, 53, 45, 50, 53, 84, 48, 56, 58, 51, 48, 58, 48, 48, 46, 48, 48, 48, 43, 48, 48, 48, 48>>
    \* "2025-05-25T08:30:00.000+0000"
cAfter == <<50, 48, 50, 53, 45, 48, 53, 45, 50, 53, 84, 48, 56, 58, 51, 48, 58, 48, 48, 46, 48, 48, 49, 43, 48, 48, 48, 48>>
    \* "2025-05-25T08:30:00.001+0000"
cJunk == <<108, 97, 116, 101, 114>>
    \* "later"
cId == <<49, 48, 48, 48, 49>>
    \* "10001"
uEnvServer == <<104, 116, 116, 112, 115, 58, 47, 47, 106, 105, 114, 97, 46, 101, 120, 97, 109, 112, 108, 101, 47>>
    \* "https://jira.example/"

kA5 == <<65, 45, 53>>
    \* "A-5"

\* what time.Now() may return, in a process whose local zone is UTC
Nows ==
    { Instant(2020, 1, 2, 0, 0, 0, 0, 0),          \* 2020-01-02T00:00:00Z
      Instant(2020, 1, 1, 12, 0, 0, 0, 0),         \* 2020-01-01T12:00:00Z
      Instant(2025, 6, 1, 8, 30, 0, 0, 0) }        \* 2025-06-01T08:30:00Z

RawStatuses ==
    { rDone, rClosedPadded, rResolved, rClosed, rInProgress, rAtRisk, rBlocked,
      rOverdue, rNew, rTriage, rBlockedKelvin, rDoneWide, <<>> }

RawTargetEnds ==
    { <<>>, d20200101, d20200102, d20300615, sNone, tNoon, tSoon, tZoned }

\* a raw issue payload
RawIssue(key, status, summary, updated, custom) ==
    [key |-> key, status |-> status, assignee |-> <<>>, priority |-> <<>>,
     created |-> <<>>, updated |-> updated, summary |-> summary,
     custom |-> custom]

\* no GenerateReport run is in progress
IdleReport ==
    /\ issueKeys = <<>> /\ tracker = Nil /\ fetches = <<>>
    /\ parentIssues = <<>> /\ childIssues = <<>>
    /\ mostRecentComments = Nil /\ cursor = 0 /\ calls = <<>>

\* no SearchIssues call is in progress
IdleSearch ==
    /\ maxResults = 0 /\ startAt = 0 /\ pageSize = 0
    /\ allIssues = <<>> /\ searchLog = <<>>
    /\ found = [ok |-> FALSE, issues |-> <<>>]

(***************************************************************************)
(* SpecExtract: one raw payload is classified and normalised.              *)
(***************************************************************************)
InitExtract ==
    /\ pc = "classify"
    /\ now \in Nows
    /\ fieldId \in {<<>>, cfTargetEnd}
    /\ server = uServer
    /\ raw \in [issue : {RawIssue(k, st, sA, <<>>, te) :
                            k \in {kA1, <<>>}, st \in RawStatuses,
                            te \in RawTargetEnds},
                parentKey : {<<>>, kP1},
                parentSummary : {<<>>}]
    /\ isOverdue = FALSE /\ rec = Nil
    /\ issues = <<>> /\ cfg = Nil /\ filtered = <<>> /\ again = <<>>
    /\ output = Nil
    /\ IdleReport /\ IdleSearch

\* IsOverdue is called on the raw status and target end
Classify ==
    /\ pc = "classify"
    /\ isOverdue' = IsOverdue(raw.issue.status, raw.issue.custom)
    /\ pc' = "extract"
    /\ UNCHANGED <<reportVars, searchVars, now, fieldId, raw, rec, issues, cfg, filtered, again,
                   server, output>>

\* ExtractIssueData builds the record
Extract ==
    /\ pc = "extract"
    /\ rec' = ExtractIssueData(raw.issue, server, raw.parentKey, raw.parentSummary)
    /\ pc' = "extracted"
    /\ UNCHANGED <<reportVars, searchVars, now, fieldId, raw, isOverdue, issues, cfg, filtered, again,
                   server, output>>

NextExtract == Classify \/ Extract

SpecExtract == InitExtract /\ [][NextExtract]_vars

\* C1: for every status of the done family (done, closed, resolved, in any
\* letter case and with surrounding whitespace), every target end and every
\* current time, IsOverdue(status, targetEnd) is false.
C1_DoneFamilyNeverOverdue ==
    (/\ pc \in {"extract", "extracted"}
     /\ ToLower(TrimSpace(raw.issue.status)) \in {sDone, sClosed, sResolved})
    => isOverdue = FALSE

\* C2 as stated: in every record ExtractIssueData builds, Trending = "overdue"
\* implies that Emoji is the off-track glyph and that
\* IsOverdue(StatusName, TargetEnd) holds at the time of construction.
C2_OverdueTrendingIsRedAndLate ==
    (pc = "extracted" /\ rec.Trending = sOverdue)
    => (rec.Emoji = eRed /\ IsOverdue(rec.StatusName, rec.TargetEnd))

\* C2 as amended: in every record whose status name is not itself "overdue",
\* Trending = "overdue" implies that Emoji is the off-track glyph and that
\* IsOverdue(StatusName, TargetEnd) holds at the time of construction.
C2_OverdueTrendingOfOtherStatus ==
    (pc = "extracted" /\ rec.Trending = sOverdue /\ rec.StatusName # sOverdue)
    => (rec.Emoji = eRed /\ IsOverdue(rec.StatusName, rec.TargetEnd))

\* C2 witness: a record of an in-progress issue was built past its target end
C2_Witness ==
    /\ pc = "extracted"
    /\ rec.StatusName = sInProgress
    /\ rec.Trending = sOverdue
    /\ rec.TargetEnd = d20200101

\* C15: in every record ExtractIssueData builds, when IsOverdue(statusName,
\* targetEnd) holds the trending is "overdue" and the emoji the off-track
\* glyph, whatever the status ("at risk" and "blocked" included); otherwise
\* the trending is "done" for done, closed and resolved, "not started" for
\* not started, ready for work, vetting and new, and the lower-cased status
\* name for every other status.
C15_TrendingAndOverdueOverride ==
    pc = "extracted" =>
        IF IsOverdue(rec.StatusName, rec.TargetEnd)
        THEN rec.Trending = sOverdue /\ rec.Emoji = eRed
        ELSE /\ rec.StatusName \in {sDone, sClosed, sResolved}
                => rec.Trending = sDone
             /\ rec.StatusName \in {sNotStarted, sReadyForWork, sVetting, sNew}
                => rec.Trending = sNotStarted
             /\ rec.StatusName \notin {sDone, sClosed, sResolved, sNotStarted,
                                       sReadyForWork, sVetting, sNew}
                => rec.Trending = ToLower(TrimSpace(
                       IF raw.issue.status = <<>> THEN sUnknown
                       ELSE raw.issue.status))

\* C15 witness: a blocked issue with the date-only target end 2020-01-01 was
\* normalised on a later day and trends overdue with the off-track glyph
C15_Witness ==
    /\ pc = "extracted"
    /\ raw.issue.status = rBlocked
    /\ rec.StatusName = sBlocked
    /\ rec.TargetEnd = d20200101
    /\ now = Instant(2025, 6, 1, 8, 30, 0, 0, 0)
    /\ rec.Trending = sOverdue
    /\ rec.Emoji = eRed

\* the status name holds no upper-case letter and no space at either end
C16_LowerTrimmed(s) ==
    /\ \A i \in 1..Len(s) : LowerRune(s[i]) = s[i]
    /\ s # <<>> => ~IsSpace(s[1]) /\ ~IsSpace(s[Len(s)])

\* when no parent key is supplied the record is its own parent
C16_OwnParent ==
    raw.parentKey = <<>> =>
        /\ rec.ParentKey = rec.Key
        /\ rec.ParentURL = rec.URL
        /\ rec.URL = server \o <<47, 98, 114, 111, 119, 115, 101, 47>> \o rec.Key

\* C16 as stated: every record ExtractIssueData builds, from any raw payload,
\* has a non-empty key, a lower-cased and trimmed status name and a
\* non-empty parent key, and is its own parent when no parent key is supplied.
C16_RecordOfAnyPayload ==
    pc = "extracted" =>
        /\ rec.Key # <<>>
        /\ C16_LowerTrimmed(rec.StatusName)
        /\ rec.ParentKey # <<>>
        /\ C16_OwnParent

\* C16 as amended: every record ExtractIssueData builds from a raw payload
\* that carries a non-empty key has that key, a lower-cased and trimmed status
\* name and a non-empty parent key; every record, whatever its payload, has a
\* lower-cased and trimmed status name and is its own parent when no parent
\* key is supplied.
C16_RecordOfKeyedPayload ==
    pc = "extracted" =>
        /\ raw.issue.key # <<>> => (rec.Key = raw.issue.key /\ rec.ParentKey # <<>>)
        /\ C16_LowerTrimmed(rec.StatusName)
        /\ C16_OwnParent

\* C16 witness: a payload with key A-1 and the status " CLOSED " was
\* normalised without a parent
C16_Witness ==
    /\ pc = "extracted"
    /\ raw.issue.key = kA1
    /\ raw.issue.status = rClosedPadded
    /\ raw.parentKey = <<>>
    /\ rec.StatusName = sClosed
    /\ rec.ParentKey = kA1

(***************************************************************************)
(* SpecSort and SpecFilter: a list of records is filtered and sorted, and  *)
(* the result filtered and sorted again.  The records are built by         *)
(* ExtractIssueData, as in GenerateReport, and differ in the fields the    *)
(* sort (SpecSort) or the filters (SpecFilter) read.                       *)
(***************************************************************************)
MaxIssues == 2

MaxFiltered == 2

\* the sequences over S of length at most k
SeqUpTo(S, k) == UNION {[1..m -> S] : m \in 0..k}

\* key, summary and updated of the records of SpecSort: A-1 and A-2 tie on
\* every sort key, A-3 differs in the summary, A-4 in the update time
SortVariants ==
    { <<kA1, sA, uAt>>, <<kA2, sA, uAt>>, <<kA3, sB, uAt>>, <<kA4, sA, uBefore>> }

\* the parent the records are built with: none for directly named issues
ParentOf(c) == IF c.ShowChildren THEN kP1 ELSE <<>>

SortPool(c) ==
    { ExtractIssueData(ri, server, ParentOf(c), <<>>) :
        ri \in { RawIssue(v[1], st, v[2], v[3], te) :
                    v \in SortVariants, st \in {rDone, rInProgress},
                    te \in {<<>>, d20200101} }
               \cup { RawIssue(kA1, rInProgress, sA, uAt, sNone) } }

\* the comment payloads of SpecFilter
CommentPayloads ==
    { [id |-> cId, created |-> u, updated |-> u] : u \in {cAt, cAfter, cJunk} }

\* the records, and those updated at uBefore or uAfter with a comment attached
WithComments(bare) ==
    bare \cup { AttachComment(r, cj) :
                    r \in {b \in bare : b.Updated \in {uBefore, uAfter}},
                    cj \in CommentPayloads }

FilterPool(c) ==
    WithComments({ ExtractIssueData(RawIssue(kA1, rInProgress, sA, u, <<>>),
                                    server, ParentOf(c), <<>>) :
                     u \in {<<>>, sNA, uJunk, uBefore, uAt, uAfter, uZoned} })

InitRun ==
    /\ fieldId = cfTargetEnd
    /\ server = ClientServer(uEnvServer)
    /\ raw = Nil /\ isOverdue = FALSE /\ rec = Nil
    /\ filtered = <<>> /\ again = <<>> /\ output = Nil
    /\ IdleReport /\ IdleSearch

\* a run at 2025-06-01T08:30:00Z in a process whose local zone is UTC
InitReport ==
    /\ now = Instant(2025, 6, 1, 8, 30, 0, 0, 0)
    /\ InitRun

InitSort ==
    /\ pc = "filter"
    /\ InitReport
    /\ cfg \in {ReportConfig(FALSE, s, 0) : s \in {<<>>, dSince}}
    /\ issues \in SeqUpTo(SortPool(cfg), MaxIssues)

\* main with --since and --needs-update: a --since value that is no date
\* ("yesterday") ends the program before any report is generated
InitFilter ==
    /\ InitReport
    /\ \E s \in {<<>>, dSince, uJunk}, k \in {0, 7} :
          IF SinceRejected(s)
          THEN pc = Exit1 /\ cfg = Nil /\ issues = <<>>
          ELSE /\ pc = "filter"
               /\ cfg = ReportConfig(FALSE, s, k)
               /\ issues \in SeqUpTo(FilterPool(cfg), MaxFiltered)

\* filterAndSortIssues is applied to the list
FilterAndSort ==
    /\ pc = "filter"
    /\ filtered' = filterAndSortIssues(issues, cfg)
    /\ pc' = "resort"
    /\ UNCHANGED <<reportVars, searchVars, now, fieldId, raw, isOverdue, rec, issues, cfg, again,
                   server, output>>

\* filterAndSortIssues is applied to its own output
SortAgain ==
    /\ pc = "resort"
    /\ again' = filterAndSortIssues(filtered, cfg)
    /\ pc' = "sorted"
    /\ UNCHANGED <<reportVars, searchVars, now, fieldId, raw, isOverdue, rec, issues, cfg, filtered,
                   server, output>>

NextSort == FilterAndSort \/ SortAgain

SpecSort == InitSort /\ [][NextSort]_vars

SpecFilter == InitFilter /\ [][NextSort]_vars

\* the list has been filtered and sorted
Sorted == pc \in {"resort", "sorted"}

\* two sequences hold the same elements, each as often
IsPermutation(s, u) ==
    /\ Len(s) = Len(u)
    /\ \E f \in [1..Len(s) -> 1..Len(s)] :
          /\ \A i, k \in 1..Len(s) : i # k => f[i] # f[k]
          /\ \A i \in 1..Len(s) : s[i] = u[f[i]]

\* how often r occurs in s
Count(s, r) == Cardinality({i \in 1..Len(s) : s[i] = r})

\* a <= b for Go strings
StrLeq(a, b) == a = b \/ StrLess(a, b)

\* C3 scenario: two records, "Done" and "In Progress", no target end, both kept
C3_Scenario ==
    /\ Sorted
    /\ Len(issues) = 2 /\ Len(filtered) = 2
    /\ {issues[1].StatusName, issues[2].StatusName} = {sDone, sInProgress}
    /\ issues[1].TargetEnd = <<>> /\ issues[2].TargetEnd = <<>>

\* C3 as stated: given two records with statuses "Done" and "In Progress", both
\* without target end, in either input order, filterAndSortIssues places the
\* "In Progress" record first and the "Done" record second.
C3_InProgressFirst ==
    C3_Scenario =>
        (filtered[1].StatusName = sInProgress /\ filtered[2].StatusName = sDone)

\* C3 as amended: given two records with statuses "Done" and "In Progress", both
\* without target end, in either input order, filterAndSortIssues places the
\* "Done" record first and the "In Progress" record second.
C3_DoneFirst ==
    C3_Scenario =>
        (filtered[1].StatusName = sDone /\ filtered[2].StatusName = sInProgress)

\* C3 witness: the scenario with the "In Progress" record first in the input
C3_Witness == C3_Scenario /\ issues[1].StatusName = sInProgress

\* the target end as the stated key compares it: a string, or Last when empty
C4_Last == <<1114112>>

\* C4: k1 <= k2 in the four-level order (status priority, target end, updated,
\* summary), the target end compared by teLeq
C4_KeyLeq(a, b, te(_)) ==
    LET pa == GetStatusPriority(a.StatusName)
        pb == GetStatusPriority(b.StatusName)
    IN  \/ pa < pb
        \/ pa = pb /\ StrLess(te(a), te(b))
        \/ pa = pb /\ te(a) = te(b) /\ StrLess(a.Updated, b.Updated)
        \/ pa = pb /\ te(a) = te(b) /\ a.Updated = b.Updated
              /\ StrLeq(a.Summary, b.Summary)

\* an empty target end compared as a value greater than every string
C4_TargetEndLast(r) == IF r.TargetEnd = <<>> THEN C4_Last ELSE r.TargetEnd

\* an empty target end compared as "9999-99-99"
C4_TargetEnd9999(r) == IF r.TargetEnd = <<>> THEN s9999 ELSE r.TargetEnd

\* C4 as stated: the output of filterAndSortIssues is a permutation of the
\* records that pass the filters, ascending in the four-level key (status
\* priority, target end, updated, summary); a record with an empty target end
\* sorts after every record of the same status priority that has a non-empty
\* target end, whatever that string is.
C4_SortedEmptyLast ==
    Sorted =>
        /\ IsPermutation(filtered, FilterIssues(issues, cfg))
        /\ \A i, k \in 1..Len(filtered) :
              i < k => C4_KeyLeq(filtered[i], filtered[k], C4_TargetEndLast)
        /\ \A i, k \in 1..Len(filtered) :
              (/\ GetStatusPriority(filtered[i].StatusName)
                    = GetStatusPriority(filtered[k].StatusName)
               /\ filtered[i].TargetEnd = <<>>
               /\ filtered[k].TargetEnd # <<>>) => k < i

\* C4 as amended: the output of filterAndSortIssues is a permutation of the
\* records that pass the filters, ascending in the four-level key (status
\* priority, target end, updated, summary) with an empty target end compared
\* as "9999-99-99"; a record with an empty target end sorts after every record
\* of the same status priority whose non-empty target end is a string less
\* than "9999-99-99".
C4_SortedEmptyAs9999 ==
    Sorted =>
        /\ IsPermutation(filtered, FilterIssues(issues, cfg))
        /\ \A i, k \in 1..Len(filtered) :
              i < k => C4_KeyLeq(filtered[i], filtered[k], C4_TargetEnd9999)
        /\ \A i, k \in 1..Len(filtered) :
              (/\ GetStatusPriority(filtered[i].StatusName)
                    = GetStatusPriority(filtered[k].StatusName)
               /\ filtered[i].TargetEnd = <<>>
               /\ filtered[k].TargetEnd # <<>>
               /\ StrLess(filtered[k].TargetEnd, s9999)) => k < i

\* C4 witness: a record without target end came first in the input and was
\* moved behind a record of the same status with a target end
C4_Witness ==
    /\ Sorted
    /\ Len(issues) = 2 /\ Len(filtered) = 2
    /\ issues[1].TargetEnd = <<>> /\ issues[2].TargetEnd = d20200101
    /\ issues[1].StatusName = issues[2].StatusName
    /\ filtered = <<issues[2], issues[1]>>

\* C5: filterAndSortIssues applied to its own output returns that output
\* unchanged, for every input list and filter setting, also when distinct
\* records are equal on all four sort keys.
C5_SortIdempotent == pc = "sorted" => again = filtered

\* C5 witness: two distinct records equal on all four sort keys were sorted twice
C5_Witness ==
    /\ pc = "sorted"
    /\ Len(filtered) = 2
    /\ filtered[1].Key # filtered[2].Key
    /\ ~less(filtered[1], filtered[2]) /\ ~less(filtered[2], filtered[1])

\* C6/C7: the since filter as stated keeps r: its update time is present,
\* parses and is not before the cutoff
C6_Kept(r) ==
    /\ r.Updated # <<>>
    /\ ParseJiraDate(r.Updated).ok
    /\ ~Before(ParseJiraDate(r.Updated), cfg.Since)

\* C6: when only the since filter is set, to T, filterAndSortIssues removes
\* exactly the records whose updated is empty, unparsable or an instant
\* strictly before T, and keeps every other record, one updated exactly at T
\* included.
C6_SinceFilter ==
    (Sorted /\ cfg.Since.ok /\ ~cfg.NoCommentSince.ok) =>
        /\ \A i \in 1..Len(filtered) : \E k \in 1..Len(issues) : filtered[i] = issues[k]
        /\ \A k \in 1..Len(issues) :
              Count(filtered, issues[k])
                = IF C6_Kept(issues[k]) THEN Count(issues, issues[k]) ELSE 0

\* C6 witness: of a record updated just before T and one updated exactly at T,
\* the second alone was kept
C6_Witness ==
    /\ Sorted /\ cfg.Since.ok /\ ~cfg.NoCommentSince.ok
    /\ cfg.Since = Instant(2025, 5, 20, 0, 0, 0, 0, 0)
    /\ Len(issues) = 2
    /\ issues[1].Updated = uBefore /\ issues[2].Updated = uAt
    /\ filtered = <<issues[2]>>

\* C7: the comment filter as stated drops r: its comment time is present,
\* parses and is strictly after the cutoff
C7_Dropped(r) ==
    /\ r.Comment.Created # <<>>
    /\ ParseJiraDate(r.Comment.Created).ok
    /\ After(ParseJiraDate(r.Comment.Created), cfg.NoCommentSince)

\* C7: when noCommentSince is set, to C, a record is dropped by it if and only
\* if its comment time is non-empty and parses to an instant strictly after C
\* (no comment, an unparsable time, a time at or before C: kept), and a record
\* is kept when it passes this filter and the since filter.
C7_NoCommentSinceFilter ==
    (Sorted /\ cfg.NoCommentSince.ok) =>
        /\ \A i \in 1..Len(filtered) : \E k \in 1..Len(issues) : filtered[i] = issues[k]
        /\ \A k \in 1..Len(issues) :
              Count(filtered, issues[k])
                = IF /\ (cfg.Since.ok => C6_Kept(issues[k]))
                     /\ ~C7_Dropped(issues[k])
                  THEN Count(issues, issues[k]) ELSE 0

\* C7 witness: with both filters set, of two records updated after T the one
\* commented just after C was dropped and the one commented exactly at C kept
C7_Witness ==
    /\ Sorted /\ cfg.Since.ok
    /\ cfg.NoCommentSince = Instant(2025, 5, 25, 8, 30, 0, 0, 0)
    /\ Len(issues) = 2
    /\ issues[1].Updated = uAfter /\ issues[1].Comment.Created = cAfter
    /\ issues[2].Updated = uAfter /\ issues[2].Comment.Created = cAt
    /\ filtered = <<issues[2]>>

(***************************************************************************)
(* SpecRender: a list of records is handed to a renderer.                  *)
(***************************************************************************)
MaxRendered == 3

\* the most recent comment of A-2 and of A-5; the other issues have none
RenderComments(r) ==
    IF r.Key = kA2
    THEN AttachComment(r, [id |-> cId, created |-> cAt, updated |-> cAt])
    ELSE IF r.Key = kA5
    THEN AttachComment(r, [id |-> cId, created |-> cAfter, updated |-> cAfter])
    ELSE r

RenderPool(c) ==
    { RenderComments(ExtractIssueData(ri, server, ParentOf(c), <<>>)) :
        ri \in { RawIssue(kA1, rDone, sA, uAfter, d20200101),
                 RawIssue(kA2, rInProgress, sB, uAfter, <<>>),
                 RawIssue(kA3, rNew, sA, uAt, d20300615),
                 RawIssue(kA4, rInProgress, sA, uBefore, <<>>),
                 RawIssue(kA5, rBlocked, sB, uBefore, <<>>) } }

\* the offsets, in seconds, of the local zones of the runs of SpecRender:
\* UTC, +05:30 and -04:00
LocalZones == {0, 19800, -14400}

\* Time.In: the same instant, displayed in the zone of that offset
In(t, offset) == [t EXCEPT !.z = offset]

InitRender ==
    /\ pc = "render"
    /\ now \in {In(Instant(2025, 6, 1, 8, 30, 0, 0, 0), z) : z \in LocalZones}
    /\ InitRun
    /\ cfg \in {ReportConfig(ch, s, k) :
                    ch \in BOOLEAN, s \in {<<>>, dSince}, k \in {0, 7}}
    /\ issues \in SeqUpTo(RenderPool(cfg), MaxRendered)

\* RenderURLReport renders the list
RenderURL ==
    /\ pc = "render"
    /\ output' = [kind |-> "url", text |-> RenderURLReport(server, issues, cfg)]
    /\ pc' = "rendered"
    /\ UNCHANGED <<reportVars, searchVars, now, fieldId, raw, isOverdue, rec, issues, cfg, filtered,
                   again, server>>

\* RenderMarkdownReport renders the list
RenderMarkdown ==
    /\ pc = "render"
    /\ output' = [kind |-> "markdown", text |-> RenderMarkdownReport(issues, cfg)]
    /\ pc' = "rendered"
    /\ UNCHANGED <<reportVars, searchVars, now, fieldId, raw, isOverdue, rec, issues, cfg, filtered,
                   again, server>>

NextRender == RenderURL \/ RenderMarkdown

SpecRender == InitRender /\ [][NextRender]_vars

\* the records of the list that pass the filters as C6 and C7 state them
PassingIssues ==
    SelectSeq(issues, LAMBDA r : /\ (cfg.Since.ok => C6_Kept(r))
                                 /\ (cfg.NoCommentSince.ok => ~C7_Dropped(r)))

HexValue(c) == IF c >= 65 THEN c - 55 ELSE c - 48

\* url.QueryUnescape, to bytes: + is a space, %XX the byte XX
RECURSIVE QueryUnescape(_)
QueryUnescape(s) ==
    IF Len(s) = 0 THEN <<>>
    ELSE IF s[1] = 43 THEN <<32>> \o QueryUnescape(Tail(s))
    ELSE IF s[1] = 37 /\ Len(s) >= 3
         THEN <<16 * HexValue(s[2]) + HexValue(s[3])>> \o QueryUnescape(Drop(s, 3))
    ELSE <<s[1]>> \o QueryUnescape(Tail(s))

\* "key in (K1, K2, ..., Kn) order by assignee ASC"
C8_JQL(keys) ==
    <<107, 101, 121, 32, 105, 110, 32, 40>> \o Join(keys, <<44, 32>>)
    \o <<41, 32, 111, 114, 100, 101, 114, 32, 98, 121, 32, 97, 115, 115, 105, 103, 110, 101, 101, 32, 65, 83, 67>>

\* "/issues/?jql="
C8_Path == <<47, 105, 115, 115, 117, 101, 115, 47, 63, 106, 113, 108, 61>>

\* C8: for a non-empty filtered list RenderURLReport returns the server URL,
\* without trailing slash, then /issues/?jql= and the encoded JQL; decoded, the
\* JQL is exactly "key in (K1, K2, ..., Kn) order by assignee ASC" with the key
\* of every record that passed the filters, once per record, in the filtered
\* and sorted order, joined by ", ".
C8_URLListsFilteredKeys ==
    (pc = "rendered" /\ output.kind = "url" /\ Len(PassingIssues) > 0) =>
        LET keys   == KeysOf(filterAndSortIssues(issues, cfg))
            prefix == server \o C8_Path
        IN  /\ server[Len(server)] # 47
            /\ IsPermutation(keys, KeysOf(PassingIssues))
            /\ Len(output.text) >= Len(prefix)
            /\ SubSeq(output.text, 1, Len(prefix)) = prefix
            /\ QueryUnescape(Drop(output.text, Len(prefix))) = UTF8(C8_JQL(keys))

\* C8 witness: the keys A-3, A-1, A-2 came in and the URL lists A-1, A-2, A-3
C8_Witness ==
    /\ pc = "rendered" /\ output.kind = "url"
    /\ KeysOf(issues) = <<kA3, kA1, kA2>>
    /\ output.text = uServer
         \o <<47, 105, 115, 115, 117, 101, 115, 47, 63, 106, 113, 108, 61, 107, 101, 121, 43, 105, 110, 43, 37, 50, 56, 65, 45, 49, 37, 50, 67, 43, 65, 45, 50, 37, 50, 67, 43, 65, 45, 51, 37, 50, 57, 43, 111, 114, 100, 101, 114, 43, 98, 121, 43, 97, 115, 115, 105, 103, 110, 101, 101, 43, 65, 83, 67>>

\* the pieces of s between the occurrences of the rune sep
RECURSIVE Split(_, _)
Split(s, sep) ==
    LET at == {i \in 1..Len(s) : s[i] = sep}
    IN  IF at = {} THEN <<s>>
        ELSE <<SubSeq(s, 1, MinOf(at) - 1)>> \o Split(Drop(s, MinOf(at)), sep)

\* the lines of the markdown report of a list of which k records pass
C9_MarkdownShape(text, k) ==
    LET lines == Split(text, 10)
    IN  /\ Len(lines) = 9 + k
        /\ lines[1] = <<>>
        /\ lines[2] = <<35, 35, 35, 32>> \o cfg.Title
        /\ lines[3] = <<42, 32, 103, 101, 110, 101, 114, 97, 116, 101, 100, 32, 97, 116, 58, 32>> \o FormatRFC3339(now)
        /\ lines[4] = <<42, 32, 114, 111, 119, 32, 99, 111, 117, 110, 116, 58, 32>> \o Itoa(k)
        /\ lines[5] = <<>>
        /\ lines[6] = IF cfg.ShowChildren
                      THEN <<124, 32, 115, 116, 97, 116, 117, 115, 32, 124, 32, 112, 97, 114, 101, 110, 116, 32, 124, 32, 105, 115, 115, 117, 101, 32, 124, 32, 97, 115, 115, 105, 103, 110, 101, 101, 32, 124, 32, 116, 97, 114, 103, 101, 116, 32, 100, 97, 116, 101, 32, 124, 32, 108, 97, 115, 116, 32, 117, 112, 100, 97, 116, 101, 32, 124>>
                      ELSE <<124, 32, 115, 116, 97, 116, 117, 115, 32, 124, 32, 105, 115, 115, 117, 101, 32, 124, 32, 97, 115, 115, 105, 103, 110, 101, 101, 32, 124, 32, 116, 97, 114, 103, 101, 116, 32, 100, 97, 116, 101, 32, 124, 32, 108, 97, 115, 116, 32, 117, 112, 100, 97, 116, 101, 32, 124>>
        /\ lines[7] = IF cfg.ShowChildren
                      THEN <<124, 45, 45, 45, 124, 58, 45, 45, 124, 58, 45, 45, 124, 58, 45, 45, 124, 58, 45, 45, 124, 58, 45, 45, 124>>
                      ELSE <<124, 45, 45, 45, 124, 58, 45, 45, 124, 58, 45, 45, 124, 58, 45, 45, 124, 58, 45, 45, 124>>
        /\ \A i \in 8..(7 + k) : Len(lines[i]) > 2 /\ SubSeq(lines[i], 1, 2) = <<124, 32>>
        /\ lines[8 + k] = <<>>
        /\ lines[9 + k] = <<>>

\* C9: when no record passes the filters (an empty list, or every record
\* filtered out) RenderURLReport returns the empty string, while
\* RenderMarkdownReport still emits the title line, the generation time line,
\* a "row count: 0" line and the table header with no data rows; in general
\* the markdown row count, and the number of data rows, is the number of
\* records that passed the filters.
C9_EmptyListAndRowCount ==
    pc = "rendered" =>
        /\ (output.kind = "url" /\ Len(PassingIssues) = 0) => output.text = <<>>
        /\ output.kind = "markdown" => C9_MarkdownShape(output.text, Len(PassingIssues))

\* C9 witness: two records came in, both were filtered out, and the markdown
\* report is the header block with row count 0
C9_Witness ==
    /\ pc = "rendered" /\ output.kind = "markdown"
    /\ Len(issues) = 2 /\ Len(PassingIssues) = 0
    /\ ~cfg.ShowChildren
    /\ output.text =
         <<10, 35, 35, 35, 32, 83, 110, 105, 112, 112, 101, 116, 115, 33, 10, 42, 32, 103, 101, 110, 101, 114, 97, 116, 101, 100, 32, 97, 116, 58, 32, 50, 48, 50, 53, 45, 48, 54, 45, 48, 49, 84, 48, 56, 58, 51, 48, 58, 48, 48, 90, 10, 42, 32, 114, 111, 119, 32, 99, 111, 117, 110, 116, 58, 32, 48, 10, 10, 124, 32, 115, 116, 97, 116, 117, 115, 32, 124, 32, 105, 115, 115, 117, 101, 32, 124, 32, 97, 115, 115, 105, 103, 110, 101, 101, 32, 124, 32, 116, 97, 114, 103, 101, 116, 32, 100, 97, 116, 101, 32, 124, 32, 108, 97, 115, 116, 32, 117, 112, 100, 97, 116, 101, 32, 124, 10, 124, 45, 45, 45, 124, 58, 45, 45, 124, 58, 45, 45, 124, 58, 45, 45, 124, 58, 45, 45, 124, 10, 10>>

(***************************************************************************)
(* SpecCSV: a list of records is rendered as CSV.                          *)
(***************************************************************************)
MaxCSVRows == 2

\* summaries: "a", the separator and a quote, a line feed between letters,
\* a lone quote, a trailing carriage return
CSVSummaries ==
    { sA, <<128049, 34>>, <<97, 10, 98>>, <<34>>, <<97, 13>> }

\* comment times: none, a Jira timestamp, a string ending in a carriage return
CSVCommentTimes == { <<>>, cAt, <<97, 13>> }

\* the record with a comment of time ct attached, if any
CSVComment(r, ct) ==
    IF ct = <<>> THEN r
    ELSE AttachComment(r, [id |-> cId, created |-> ct, updated |-> ct])

CSVPool(c) ==
    { CSVComment(ExtractIssueData(RawIssue(kA1, rInProgress, sm, uAt, d20300615),
                                  server, ParentOf(c), <<>>), ct) :
        sm \in CSVSummaries, ct \in CSVCommentTimes }

InitCSV ==
    /\ pc = "render"
    /\ InitReport
    /\ cfg \in {ReportConfig(ch, <<>>, 0) : ch \in BOOLEAN}
    /\ issues \in SeqUpTo(CSVPool(cfg), MaxCSVRows)

\* RenderCSVReport renders the list
RenderCSV ==
    /\ pc = "render"
    /\ output' = [kind |-> "csv", text |-> RenderCSVReport(issues, cfg)]
    /\ pc' = "rendered"
    /\ UNCHANGED <<reportVars, searchVars, now, fieldId, raw, isOverdue, rec, issues, cfg, filtered,
                   again, server>>

NextCSV == RenderCSV

SpecCSV == InitCSV /\ [][NextCSV]_vars

\* A CSV reader after RFC 4180, keyed on the separator rune sep: records end
\* at LF or CRLF (the last one also at the end of the text), a field that
\* starts with a quote runs to its closing quote with "" read as one quote,
\* any other field runs to the next separator or line break.  A carriage
\* return that no line feed follows is kept as data.
C10_AtBreak(s, i) ==
    \/ i > Len(s)
    \/ s[i] = 10
    \/ (s[i] = 13 /\ i < Len(s) /\ s[i + 1] = 10)

\* the index after the line break at i
C10_AfterBreak(s, i) == IF s[i] = 10 THEN i + 1 ELSE i + 2

RECURSIVE C10_Quoted(_, _, _)
C10_Quoted(s, i, acc) ==
    IF i > Len(s) THEN [ok |-> FALSE, val |-> acc, nxt |-> i]
    ELSE IF s[i] = 34
         THEN IF i < Len(s) /\ s[i + 1] = 34
              THEN C10_Quoted(s, i + 2, Append(acc, 34))
              ELSE [ok |-> TRUE, val |-> acc, nxt |-> i + 1]
    ELSE C10_Quoted(s, i + 1, Append(acc, s[i]))

RECURSIVE C10_Bare(_, _, _, _)
C10_Bare(s, sep, i, acc) ==
    IF C10_AtBreak(s, i) \/ s[i] = sep THEN [ok |-> TRUE, val |-> acc, nxt |-> i]
    ELSE C10_Bare(s, sep, i + 1, Append(acc, s[i]))

C10_Field(s, sep, i) ==
    IF i <= Len(s) /\ s[i] = 34
    THEN LET q == C10_Quoted(s, i + 1, <<>>)
         IN  [q EXCEPT !.ok = q.ok /\ (C10_AtBreak(s, q.nxt) \/ s[q.nxt] = sep)]
    ELSE C10_Bare(s, sep, i, <<>>)

RECURSIVE C10_Records(_, _, _, _, _)
C10_Records(s, sep, i, row, out) ==
    LET f == C10_Field(s, sep, i)
    IN  IF ~f.ok THEN [ok |-> FALSE, rows |-> out]
        ELSE IF f.nxt > Len(s)
             THEN [ok |-> TRUE, rows |-> Append(out, Append(row, f.val))]
        ELSE IF s[f.nxt] = sep
             THEN C10_Records(s, sep, f.nxt + 1, Append(row, f.val), out)
        ELSE IF C10_AfterBreak(s, f.nxt) > Len(s)
             THEN [ok |-> TRUE, rows |-> Append(out, Append(row, f.val))]
        ELSE C10_Records(s, sep, C10_AfterBreak(s, f.nxt), <<>>,
                         Append(out, Append(row, f.val)))

C10_ReadCSV(s, sep) == C10_Records(s, sep, 1, <<>>, <<>>)

\* the table RenderCSVReport writes, before escaping: the header cells, then
\* the cells of each record in the filtered and sorted order
C10_Table ==
    LET sorted == filterAndSortIssues(issues, cfg)
    IN  <<CSVHeaderCells(cfg)>>
        \o [i \in 1..Len(sorted) |-> CSVRowCells(sorted[i], cfg)]

C10_Cells == UNION { {row[i] : i \in 1..Len(row)} :
                        row \in {C10_Table[k] : k \in 1..Len(C10_Table)} }

\* the quoting rule as stated
C10_QuotingRule(f) ==
    escapeCSVField(f) =
        IF (\E i \in 1..Len(f) : f[i] \in {128049, 10, 34})
        THEN <<34>> \o Join(Split(f, 34), <<34, 34>>) \o <<34>>
        ELSE f

\* C10 as stated: for every field string, escapeCSVField followed by a
\* compliant CSV reader keyed on the separator reproduces the string, so the
\* rendered report reads back as the table of its cells; and a field is quoted,
\* with its quotes doubled, exactly when it contains the separator, a newline
\* or a quote, and is emitted unchanged otherwise.
C10_RoundTripEveryField ==
    (pc = "rendered" /\ output.kind = "csv") =>
        /\ C10_ReadCSV(output.text, 128049) = [ok |-> TRUE, rows |-> C10_Table]
        /\ \A f \in C10_Cells : C10_QuotingRule(f)

\* C10 amended: the round trip holds for every field string that contains no
\* carriage return, so a report none of whose cells contains one reads back as
\* the table of its cells; the quoting rule holds for every field string.
C10_RoundTripWithoutCR ==
    (pc = "rendered" /\ output.kind = "csv") =>
        /\ (\A f \in C10_Cells : \A i \in 1..Len(f) : f[i] # 13)
              => C10_ReadCSV(output.text, 128049) = [ok |-> TRUE, rows |-> C10_Table]
        /\ \A f \in C10_Cells : C10_QuotingRule(f)

\* C10 witness: a summary made of the separator and a quote was written as
\* "<separator>""" in a two-record report, which read back as its cells
C10_Witness ==
    /\ pc = "rendered" /\ output.kind = "csv"
    /\ Len(issues) = 2
    /\ issues[1].Summary = <<128049, 34>> /\ issues[2].Summary = <<97, 10, 98>>
    /\ Contains(output.text, <<128049, 34, 128049, 34, 34, 34, 128049>>)
    /\ C10_ReadCSV(output.text, 128049) = [ok |-> TRUE, rows |-> C10_Table]

(***************************************************************************)
(* SpecSearch: one SearchIssues call against a tracker that answers each   *)
(* page request with a failure or with any number of issues and any total. *)
(* The tracker holds the query's hits in a list and serves a page from the *)
(* offset asked for.                                                       *)
(***************************************************************************)
MaxRequested == 102

MaxExtra == 2

\* the answers to the field catalog request: a failure, a catalog without
\* "Target end", a catalog with it
FieldCatalogs ==
    { Nil,
      << [name |-> sParent, id |-> sA] >>,
      << [name |-> sParent, id |-> sA], [name |-> sTargetEnd, id |-> cfTargetEnd] >> }

\* the answers to a page request at offset from asking for size issues: a
\* failure, or up to MaxExtra more issues than asked for, with a total
PageResponses(hits, from, size) ==
    { [ok |-> FALSE, issues |-> <<>>, total |-> 0] }
    \cup { [ok |-> TRUE, issues |-> SubSeq(hits, from + 1, from + n), total |-> t] :
             n \in 0..Min(size + MaxExtra, Len(hits) - from),
             t \in {0, Len(hits) \div 2, Len(hits)} }

InitSearch ==
    /\ pc = "search"
    /\ maxResults \in 0..MaxRequested
    /\ tracker = [hits |-> [i \in 1..(MaxRequested + defaultPageSize) |-> i],
                  byKey |-> <<>>]
    /\ fieldId = <<>>
    /\ now = Instant(2025, 6, 1, 8, 30, 0, 0, 0)
    /\ server = ClientServer(uEnvServer)
    /\ raw = Nil /\ isOverdue = FALSE /\ rec = Nil
    /\ issues = <<>> /\ cfg = Nil /\ filtered = <<>> /\ again = <<>>
    /\ output = Nil
    /\ issueKeys = <<>> /\ fetches = <<>>
    /\ parentIssues = <<>> /\ childIssues = <<>>
    /\ mostRecentComments = Nil /\ cursor = 0 /\ calls = <<>>
    /\ startAt = 0 /\ pageSize = 0
    /\ allIssues = <<>> /\ searchLog = <<>>
    /\ found = [ok |-> FALSE, issues |-> <<>>]

\* SearchIssues up to the loop: loadCustomFields, then the locals
SearchStart ==
    /\ pc = "search"
    /\ \E fields \in FieldCatalogs : fieldId' = loadCustomFields(fields, fieldId)
    /\ allIssues' = <<>>
    /\ startAt' = 0
    /\ pageSize' = Min(defaultPageSize, maxResults)
    /\ pc' = "page"
    /\ UNCHANGED <<reportVars, now, raw, isOverdue, rec, issues, cfg, filtered,
                   again, server, output, maxResults, searchLog, found>>

\* SearchIssues, one iteration of the loop: the request, the append, and
\* either the next page's locals or the return
SearchPage ==
    /\ pc = "page"
    /\ \E response \in PageResponses(tracker.hits, startAt, pageSize) :
         /\ searchLog' = Append(searchLog, [startAt    |-> startAt,
                                            maxResults |-> pageSize,
                                            ok         |-> response.ok,
                                            issues     |-> response.issues])
         /\ IF ~response.ok
            THEN /\ found' = SearchFailed(allIssues)
                 /\ pc' = "returned"
                 /\ UNCHANGED <<allIssues, startAt, pageSize>>
            ELSE /\ allIssues' = allIssues \o response.issues
                 /\ IF LoopBreaks(Len(allIssues'), response.total, maxResults,
                                  Len(response.issues), pageSize)
                    THEN /\ found' = SearchReturns(allIssues', maxResults)
                         /\ pc' = "returned"
                         /\ UNCHANGED <<startAt, pageSize>>
                    ELSE /\ startAt' = startAt + pageSize
                         /\ pageSize' = NextPageSize(maxResults, Len(allIssues'))
                         /\ pc' = "page"
                         /\ UNCHANGED found
    /\ UNCHANGED <<reportVars, now, fieldId, raw, isOverdue, rec, issues, cfg,
                   filtered, again, server, output, maxResults>>

NextSearch == SearchStart \/ SearchPage

SpecSearch == InitSearch /\ [][NextSearch]_vars

\* the call runs to its end: the code is sequential, a step that can be
\* taken is taken
SpecSearchFair == SpecSearch /\ WF_vars(NextSearch)

\* C18 as stated, its bound: the number of page requests of a SearchIssues
\* call is at most maxResults, for every maxResults >= 0.
C18_RequestsAtMostMaxResults ==
    Len(searchLog) <= maxResults

\* a failed page request ends the call with an error and no partial result
C18_FailureReturnsNothing ==
    (pc = "returned" /\ ~searchLog[Len(searchLog)].ok)
    => (~found.ok /\ found.issues = <<>>)

\* an iteration of the loop that does not exit adds at least one issue
C18_IterationExitsOrAdds ==
    (pc = "page" /\ pc' = "page") => Len(allIssues') > Len(allIssues)

\* C18 as amended: SearchIssues terminates for every maxResults >= 0 and every
\* behaviour of the tracker (any total, any number of issues per page, empty
\* and oversized pages included): each loop iteration either exits or adds at
\* least one issue, the number of requests is at most maxResults and, for
\* maxResults = 0, one, and a failed page request ends the call with an error
\* and no partial result.
C18_SearchTerminates ==
    /\ <>(pc = "returned")
    /\ [][C18_IterationExitsOrAdds]_vars
    /\ [](Len(searchLog) <= (IF maxResults = 0 THEN 1 ELSE maxResults))
    /\ []C18_FailureReturnsNothing

\* C18 witness: a call for 102 issues has returned after three requests, the
\* third a failure, the first two answered with more issues than asked for
C18_Witness ==
    /\ pc = "returned"
    /\ maxResults = 102
    /\ Len(searchLog) = 3
    /\ Len(searchLog[1].issues) = 51
    /\ ~searchLog[3].ok
    /\ ~found.ok

\* the number of issues the first k requests returned
RECURSIVE C19_Accumulated(_)
C19_Accumulated(k) ==
    IF k = 0 THEN 0 ELSE C19_Accumulated(k - 1) + Len(searchLog[k].issues)

\* the pages of the first k requests, one after the other
RECURSIVE C19_Pages(_)
C19_Pages(k) ==
    IF k = 0 THEN <<>> ELSE C19_Pages(k - 1) \o searchLog[k].issues

\* the tracker has returned at most the number of issues asked for
C19_HonestTracker ==
    \A k \in 1..Len(searchLog) :
        Len(searchLog[k].issues) <= searchLog[k].maxResults

\* C19: against a tracker that returns at most the requested number of issues
\* per page, every request asks at the offset of the issues accumulated so far
\* for min(50, maxResults - accumulated) issues, so the accumulated issues are
\* the tracker's hits from the first on, without overlap or gap, and the
\* sequence returned is the pages in request order, at most maxResults long.
C19_PaginationAccounting ==
    C19_HonestTracker =>
        /\ \A k \in 1..Len(searchLog) :
             /\ searchLog[k].startAt = C19_Accumulated(k - 1)
             /\ searchLog[k].maxResults
                  = Min(50, maxResults - C19_Accumulated(k - 1))
        /\ pc = "page" =>
             /\ startAt = Len(allIssues)
             /\ pageSize = Min(50, maxResults - Len(allIssues))
        /\ \A i \in 1..Len(allIssues) : allIssues[i] = tracker.hits[i]
        /\ (pc = "returned" /\ found.ok) =>
             /\ found.issues = C19_Pages(Len(searchLog))
             /\ Len(found.issues) <= maxResults

\* C19 witness: a call for 102 issues has returned them from three pages of
\* 50, 50 and 2 issues
C19_Witness ==
    /\ pc = "returned"
    /\ maxResults = 102
    /\ C19_HonestTracker
    /\ Len(searchLog) = 3
    /\ searchLog[3].startAt = 100
    /\ searchLog[3].maxResults = 2
    /\ found.ok
    /\ Len(found.issues) = 102

(***************************************************************************)
(* SpecDispatch: GenerateReport renders the records it has collected, under *)
(* every combination of the output flags.                                  *)
(***************************************************************************)
MaxDispatched == 1

\* the records of SpecDispatch: A-1 without a comment and A-2 with one, in
\* progress, without a target end and past it
DispatchPool(c) ==
    { RenderComments(ExtractIssueData(RawIssue(k, rInProgress, sA, uAt, te),
                                      server, ParentOf(c), <<>>)) :
        k \in {kA1, kA2}, te \in {<<>>, d20200101} }

\* the output flags of main, every combination
OutputConfigs(children, jqls) ==
    { WithOutput(ReportConfig(ch, <<>>, 0), j, c, sl, u, q) :
        ch \in children, j \in BOOLEAN, c \in BOOLEAN, sl \in BOOLEAN,
        u \in BOOLEAN, q \in jqls }

InitDispatch ==
    /\ pc = "render"
    /\ now = Instant(2025, 6, 1, 8, 30, 0, 0, 0)
    /\ fieldId = cfTargetEnd
    /\ server = ClientServer(uEnvServer)
    /\ raw = Nil /\ isOverdue = FALSE /\ rec = Nil
    /\ issues = <<>> /\ filtered = <<>> /\ again = <<>>
    /\ output = [kind |-> "none", text |-> <<>>]
    /\ cfg \in OutputConfigs(BOOLEAN, {<<>>})
    /\ parentIssues \in SeqUpTo(DispatchPool(cfg), MaxDispatched)
    /\ childIssues \in SeqUpTo(DispatchPool(cfg), MaxDispatched)
    /\ issueKeys = KeysOf(parentIssues)
    /\ tracker = [hits |-> <<>>, byKey |-> <<>>]
    /\ fetches = <<>> /\ mostRecentComments = <<>> /\ cursor = 0 /\ calls = <<>>
    /\ IdleSearch

\* GenerateReport, "Render output" and "Output": one renderer is called on
\* issuesToRender and its string printed
Render ==
    /\ pc = "render"
    /\ calls' = Append(calls, Dispatch(cfg))
    /\ output' = [kind |-> Dispatch(cfg),
                  text |-> RenderBy(Dispatch(cfg),
                                    IssuesToRender(parentIssues, childIssues, cfg),
                                    cfg)]
    /\ pc' = "done"
    /\ UNCHANGED <<searchVars, now, fieldId, raw, isOverdue, rec, issues, cfg,
                   filtered, again, server, issueKeys, tracker, fetches,
                   parentIssues, childIssues, mostRecentComments, cursor>>

NextDispatch == Render

SpecDispatch == InitDispatch /\ [][NextDispatch]_vars

\* the output flags in the order of their priority
C11_Priority == <<"json", "csv", "slack", "url">>

\* the output flag of a format is set
C11_Flag(c, kind) ==
    IF kind = "json" THEN c.JSONOutput
    ELSE IF kind = "csv" THEN c.CSVOutput
    ELSE IF kind = "slack" THEN c.SlackOutput
    ELSE c.URLOutput

\* the format of the highest priority whose flag is set, markdown if none is
C11_Chosen(c) ==
    IF \A i \in 1..4 : ~C11_Flag(c, C11_Priority[i]) THEN "markdown"
    ELSE C11_Priority[MinOf({i \in 1..4 : C11_Flag(c, C11_Priority[i])})]

\* what the renderer of a format returns for the run's records
C11_Rendered(kind, list) ==
    CASE kind = "json" -> RenderJSONReport(list, cfg)
      [] kind = "csv" -> RenderCSVReport(list, cfg)
      [] kind = "slack" -> RenderSlackReport(list, cfg)
      [] kind = "url" -> RenderURLReport(server, list, cfg)
      [] OTHER -> RenderMarkdownReport(list, cfg)

\* C11: for every combination of the four output flags GenerateReport calls
\* exactly one renderer, the one of the first set flag in the order json, csv,
\* slack, url, and the markdown renderer when no flag is set; the output is
\* what that renderer returns for the children (with --children) or the
\* parents.
C11_OneRendererByPriority ==
    /\ pc = "render" => calls = <<>>
    /\ pc = "done" =>
         /\ calls = <<C11_Chosen(cfg)>>
         /\ output.kind = C11_Chosen(cfg)
         /\ output.text
              = C11_Rendered(C11_Chosen(cfg),
                             IF cfg.ShowChildren THEN childIssues
                             ELSE parentIssues)

\* C11 witness: with the csv, slack and url flags set and the json flag not,
\* the CSV renderer was called on a record
C11_Witness ==
    /\ pc = "done"
    /\ ~cfg.JSONOutput /\ cfg.CSVOutput /\ cfg.SlackOutput /\ cfg.URLOutput
    /\ calls = <<"csv">>
    /\ Len(parentIssues) = 1
    /\ ~cfg.ShowChildren
    /\ output.text = RenderCSVReport(parentIssues, cfg)

(***************************************************************************)
(* SpecReport: whole GenerateReport runs, by direct keys and by a JQL      *)
(* query, with and without --children, against a tracker whose requests    *)
(* may fail.                                                               *)
(***************************************************************************)
MaxKeys == 2

\* "A-9", a key the tracker does not know
kA9 == <<65, 45, 57>>

\* "project = A"
qProject == <<112, 114, 111, 106, 101, 99, 116, 32, 61, 32, 65>>

\* the comments of the tracker: 10001 and 10002 were created at the same
\* time and 10002 edited later, 10003 was created later, 10004 has no
\* timestamp the tracker would write
Comment1 == [id |-> cId, created |-> cAt, updated |-> cAt]
Comment2 == [id |-> <<49, 48, 48, 48, 50>>, created |-> cAt, updated |-> cAfter]
Comment3 == [id |-> <<49, 48, 48, 48, 51>>, created |-> cAfter, updated |-> cAfter]
Comment4 == [id |-> <<49, 48, 48, 48, 52>>, created |-> cJunk, updated |-> <<>>]

\* what the tracker holds for an issue
Held(issue, subtasks, links, comments) ==
    [issue |-> issue, subtasks |-> subtasks, links |-> links,
     comments |-> comments]

\* the tracker of SpecReport: A-1 has the subtasks A-3 and A-4 and an inward
\* link to A-4, A-2 a subtask reference without a key and a link whose
\* outward issue is A-3; all have a target end in the past
ReportTracker ==
    [hits |-> << RawIssue(kA1, rInProgress, sA, uAt, d20200101),
                 RawIssue(kA2, rOverdue, sB, uBefore, d20200101) >>,
     byKey |->
        (kA1 :> Held(RawIssue(kA1, rInProgress, sA, uAt, d20200101),
                     <<kA3, kA4>>,
                     << [outward |-> <<>>, inward |-> <<kA4>>] >>,
                     <<Comment1, Comment3>>)
         @@ kA2 :> Held(RawIssue(kA2, rOverdue, sB, uBefore, d20200101),
                        << <<>> >>,
                        << [outward |-> <<kA3>>, inward |-> <<kA4>>] >>,
                        <<>>)
         @@ kA3 :> Held(RawIssue(kA3, rBlocked, sA, uAfter, d20200101),
                        <<>>, <<>>, <<Comment2>>)
         @@ kA4 :> Held(RawIssue(kA4, rDone, sB, uAt, d20200101),
                        <<>>, <<>>, <<>>))]

\* the runs of SpecReport: keys named on the command line, or a query
InitReportRun ==
    /\ now = Instant(2025, 6, 1, 8, 30, 0, 0, 0)
    /\ fieldId = <<>>
    /\ server = ClientServer(uEnvServer)
    /\ raw = Nil /\ isOverdue = FALSE /\ rec = Nil
    /\ issues = <<>> /\ filtered = <<>> /\ again = <<>>
    /\ output = [kind |-> "none", text |-> <<>>]
    /\ tracker = ReportTracker
    /\ cfg \in { WithOutput(ReportConfig(ch, <<>>, 0), j, FALSE, FALSE, FALSE, q) :
                   ch \in BOOLEAN, j \in BOOLEAN, q \in {<<>>, qProject} }
    /\ IF cfg.JQLQuery = <<>>
       THEN /\ issueKeys \in SeqUpTo({kA1, kA2, kA9}, MaxKeys) \ {<<>>}
            /\ pc = "parents" /\ cursor = 1 /\ maxResults = 0
       ELSE /\ issueKeys = <<>>
            /\ pc = "search" /\ cursor = 0 /\ maxResults = 1000
    /\ fetches = <<>> /\ parentIssues = <<>> /\ childIssues = <<>>
    /\ mostRecentComments = <<>> /\ calls = <<>>
    /\ startAt = 0 /\ pageSize = 0 /\ allIssues = <<>> /\ searchLog = <<>>
    /\ found = [ok |-> FALSE, issues |-> <<>>]

\* GenerateReport with a query: GetIssuesFromQuery after SearchIssues has
\* returned, and the issue keys taken from the records
QueryParents ==
    /\ pc = "returned"
    /\ IF ~found.ok
       THEN /\ pc' = "failed"
            /\ UNCHANGED <<parentIssues, issueKeys>>
       ELSE /\ parentIssues' = QueriedIssues(found.issues)
            /\ issueKeys' = KeysOf(parentIssues')
            /\ pc' = AfterParents(cfg, parentIssues')
    /\ cursor' = 1
    /\ UNCHANGED <<searchVars, now, fieldId, raw, isOverdue, rec, issues, cfg,
                   filtered, again, server, output, tracker, fetches,
                   childIssues, mostRecentComments, calls>>

\* GenerateReport with keys, one iteration of the loop over issueKeys:
\* GetIssue, and the record appended unless the request failed
FetchParent ==
    /\ pc = "parents"
    /\ \E ok \in (IF issueKeys[cursor] \in DOMAIN tracker.byKey THEN BOOLEAN
                  ELSE {FALSE}) :
         /\ fetches' = Append(fetches, [key |-> issueKeys[cursor], ok |-> ok,
                                        role |-> "parent"])
         /\ parentIssues' =
              IF ok
              THEN Append(parentIssues,
                          GetIssue(tracker, issueKeys[cursor], <<>>, <<>>))
              ELSE parentIssues
    /\ cursor' = IF cursor = Len(issueKeys) THEN 1 ELSE cursor + 1
    /\ pc' = IF cursor = Len(issueKeys) THEN AfterParents(cfg, parentIssues')
             ELSE "parents"
    /\ UNCHANGED <<searchVars, now, fieldId, raw, isOverdue, rec, issues, cfg,
                   filtered, again, server, output, issueKeys, tracker,
                   childIssues, mostRecentComments, calls>>

\* the requests of one GetSubtasks or GetLinkedIssues call
ExpansionRequests(parentKey, parentOk, refs, oks) ==
    <<[key |-> parentKey, ok |-> parentOk, role |-> "expand"]>>
    \o RequestsFrom(refs, oks, 1)

\* GenerateReport with --children, one iteration of the loop over
\* parentIssues: GetSubtasks, then GetLinkedIssues
ExpandChildren ==
    /\ pc = "children"
    /\ \E subOk, linkOk \in (IF parentIssues[cursor].Key \in DOMAIN tracker.byKey
                             THEN BOOLEAN ELSE {FALSE}) :
         \E subOks \in OutcomeVectors(tracker,
                          SubtaskKeys(tracker, parentIssues[cursor].Key, subOk)),
            linkOks \in OutcomeVectors(tracker,
                          LinkedKeys(tracker, parentIssues[cursor].Key, linkOk)) :
           /\ childIssues' =
                childIssues
                \o ChildrenOf(tracker,
                              SubtaskKeys(tracker, parentIssues[cursor].Key, subOk),
                              subOks, parentIssues[cursor].Key,
                              parentIssues[cursor].Summary)
                \o ChildrenOf(tracker,
                              LinkedKeys(tracker, parentIssues[cursor].Key, linkOk),
                              linkOks, parentIssues[cursor].Key,
                              parentIssues[cursor].Summary)
           /\ fetches' =
                fetches
                \o ExpansionRequests(parentIssues[cursor].Key, subOk,
                       SubtaskKeys(tracker, parentIssues[cursor].Key, subOk),
                       subOks)
                \o ExpansionRequests(parentIssues[cursor].Key, linkOk,
                       LinkedKeys(tracker, parentIssues[cursor].Key, linkOk),
                       linkOks)
    /\ cursor' = IF cursor = Len(parentIssues) THEN 1 ELSE cursor + 1
    /\ pc' = IF cursor = Len(parentIssues) THEN "comments" ELSE "children"
    /\ UNCHANGED <<searchVars, now, fieldId, raw, isOverdue, rec, issues, cfg,
                   filtered, again, server, output, issueKeys, tracker,
                   parentIssues, mostRecentComments, calls>>

\* GenerateReport: allKeys and GetMostRecentComments; no request is made for
\* no keys, and a failed request ends the run
LookupComments ==
    /\ pc = "comments"
    /\ \E ok \in (IF Len(AllKeys(parentIssues, childIssues)) = 0 THEN {TRUE}
                  ELSE BOOLEAN) :
         /\ fetches' =
              IF Len(AllKeys(parentIssues, childIssues)) = 0 THEN fetches
              ELSE Append(fetches, [key |-> <<>>, ok |-> ok, role |-> "comments"])
         /\ mostRecentComments' =
              IF ok THEN GetMostRecentComments(tracker,
                                               AllKeys(parentIssues, childIssues))
              ELSE mostRecentComments
         /\ pc' = IF ~ok THEN "failed"
                  ELSE IF Len(AllKeys(parentIssues, childIssues)) = 0 THEN "render"
                  ELSE "attach"
    /\ cursor' = 1
    /\ UNCHANGED <<searchVars, now, fieldId, raw, isOverdue, rec, issues, cfg,
                   filtered, again, server, output, issueKeys, tracker,
                   parentIssues, childIssues, calls>>

\* GenerateReport, one iteration of the attachment loop, over the parents
\* and then the children
Attach ==
    /\ pc = "attach"
    /\ IF cursor <= Len(parentIssues)
       THEN /\ parentIssues' =
                 [parentIssues EXCEPT ![cursor] = CommentOf(@, mostRecentComments)]
            /\ UNCHANGED childIssues
       ELSE /\ childIssues' =
                 [childIssues EXCEPT ![cursor - Len(parentIssues)] =
                     CommentOf(@, mostRecentComments)]
            /\ UNCHANGED parentIssues
    /\ cursor' = cursor + 1
    /\ pc' = IF cursor = Len(parentIssues) + Len(childIssues) THEN "render"
             ELSE "attach"
    /\ UNCHANGED <<searchVars, now, fieldId, raw, isOverdue, rec, issues, cfg,
                   filtered, again, server, output, issueKeys, tracker,
                   fetches, mostRecentComments, calls>>

NextReport ==
    \/ SearchStart
    \/ SearchPage
    \/ QueryParents
    \/ FetchParent
    \/ ExpandChildren
    \/ LookupComments
    \/ Attach
    \/ Render

SpecReport == InitReportRun /\ [][NextReport]_vars

\* a record's comment changes in a step only in the attachment loop, from no
\* comment to the comment of the map's entry for the record's own key
C12_Written(before, after) ==
    \A i \in 1..Len(before) :
        (i <= Len(after) /\ after[i].Comment # before[i].Comment)
        => /\ pc = "attach"
           /\ calls = <<>>
           /\ before[i].Comment = NoComment
           /\ before[i].Key \in DOMAIN mostRecentComments
           /\ after[i] = AttachComment(before[i],
                                       mostRecentComments[before[i].Key])

\* once the comment lookup is done no record is added, removed or renamed
C12_RecordsBuilt ==
    pc \in {"attach", "render", "done"}
    => /\ KeysOf(parentIssues') = KeysOf(parentIssues)
       /\ KeysOf(childIssues') = KeysOf(childIssues)

\* before the attachment loop no record has a comment; after it a record
\* has one exactly when the map has an entry for its key
C12_Comments(list) ==
    \A i \in 1..Len(list) :
        /\ pc \notin {"attach", "render", "done"} => list[i].Comment = NoComment
        /\ pc \in {"render", "done"} =>
             (list[i].Comment = NoComment
                <=> list[i].Key \notin DOMAIN mostRecentComments)

\* C12: during a GenerateReport run each record's comment is written at most
\* once, only from the entry of the most-recent-comment map under the
\* record's own key, and only after all parent and child records are built
\* and before a renderer is called; a record whose key has no entry keeps the
\* zero-value comment.
C12_CommentWrittenOnce ==
    /\ [][/\ C12_Written(parentIssues, parentIssues')
          /\ C12_Written(childIssues, childIssues')
          /\ C12_RecordsBuilt]_vars
    /\ [](C12_Comments(parentIssues) /\ C12_Comments(childIssues))

\* C12 witness: a run with --children has rendered A-1 with its comment, A-2
\* without one, and a child with its comment
C12_Witness ==
    /\ pc = "done"
    /\ KeysOf(parentIssues) = <<kA1, kA2>>
    /\ parentIssues[1].Comment.Created = cAfter
    /\ parentIssues[2].Comment = NoComment
    /\ \E i \in 1..Len(childIssues) :
         childIssues[i].Key = kA3 /\ childIssues[i].Comment # NoComment

\* the keys of the requests of a role made so far, all or those that succeeded
RECURSIVE C14_Keys(_, _, _)
C14_Keys(role, okOnly, n) ==
    IF n = 0 THEN <<>>
    ELSE C14_Keys(role, okOnly, n - 1)
         \o (IF fetches[n].role = role /\ (fetches[n].ok \/ ~okOnly)
             THEN <<fetches[n].key>> ELSE <<>>)

\* C14: in a batch of directly named keys, and in the expansion into
\* subtasks and linked issues, a failed issue request skips that issue only:
\* every key is requested in the order given, the records are those of the
\* requests that succeeded, in that order, and the run goes on to the
\* comment lookup and the rendering; only a failed comment lookup ends it.
C14_FailedFetchSkipsOneIssue ==
    /\ cfg.JQLQuery = <<>> =>
         /\ KeysOf(parentIssues) = C14_Keys("parent", TRUE, Len(fetches))
         /\ C14_Keys("parent", FALSE, Len(fetches))
              = SubSeq(issueKeys, 1,
                       IF pc = "parents" THEN cursor - 1 ELSE Len(issueKeys))
         /\ pc = "failed" =>
              (/\ fetches[Len(fetches)].role = "comments"
               /\ ~fetches[Len(fetches)].ok)
    /\ KeysOf(childIssues) = C14_Keys("child", TRUE, Len(fetches))
    /\ pc = "done" => Len(calls) = 1

\* C14 witness: of the keys A-9 and A-1 the first could not be fetched, of the
\* subtasks A-3 and A-4 of A-1 the first could not, and the run has rendered
\* the children it has
C14_Witness ==
    /\ pc = "done"
    /\ cfg.ShowChildren
    /\ issueKeys = <<kA9, kA1>>
    /\ KeysOf(parentIssues) = <<kA1>>
    /\ Len(fetches) > 5
    /\ fetches[1] = [key |-> kA9, ok |-> FALSE, role |-> "parent"]
    /\ fetches[4] = [key |-> kA3, ok |-> FALSE, role |-> "child"]
    /\ fetches[5] = [key |-> kA4, ok |-> TRUE, role |-> "child"]
    /\ childIssues # <<>>
    /\ childIssues[1].Key = kA4

\* a record of a run by direct keys: no target end, not overdue
C20_NeverOverdue(list) ==
    \A i \in 1..Len(list) :
        /\ list[i].TargetEnd = <<>>
        /\ ~IsOverdue(list[i].StatusName, list[i].TargetEnd)
        /\ list[i].Trending = sOverdue => list[i].StatusName = sOverdue
        /\ list[i].Emoji = GetStatusEmoji(list[i].StatusName)

\* C20: the id of the custom field "Target end" starts empty and is written
\* only by loadCustomFields in SearchIssues; in a run by direct keys, with or
\* without --children and with the comment lookup, it stays empty, every
\* record has an empty target end and none is classified overdue by IsOverdue
\* (a record trends "overdue" only if that is its status name).
C20_DirectKeysNeverOverdue ==
    /\ [][fieldId' # fieldId => (pc = "search" /\ pc' = "page")]_vars
    /\ [](searchLog = <<>> /\ pc \in {"search", "parents"} => fieldId = <<>>)
    /\ [](cfg.JQLQuery = <<>> =>
            /\ fieldId = <<>>
            /\ searchLog = <<>>
            /\ C20_NeverOverdue(parentIssues)
            /\ C20_NeverOverdue(childIssues))

\* C20 witness: a run by the key A-1 with --children has rendered its records
\* with their comments; the tracker holds a target end in the past for A-1
\* and for its subtask A-3, neither record has one
C20_Witness ==
    /\ pc = "done"
    /\ cfg.JQLQuery = <<>>
    /\ cfg.ShowChildren
    /\ issueKeys = <<kA1>>
    /\ tracker.byKey[kA1].issue.custom = d20200101
    /\ KeysOf(parentIssues) = <<kA1>>
    /\ parentIssues[1].Trending = sInProgress
    /\ parentIssues[1].Comment # NoComment
    /\ KeysOf(childIssues) = <<kA3, kA4, kA4>>
    /\ childIssues[1].Trending = sBlocked

(***************************************************************************)
(* SpecComments: the comment lookup and the attachment of a run that has   *)
(* collected the record of A-1, or the records of A-1 and A-2; the tracker *)
(* holds any list of comments for A-1.                                     *)
(***************************************************************************)
MaxComments == 3

\* the tracker of SpecComments
CommentTracker(comments) ==
    [hits |-> <<>>,
     byKey |->
        (kA1 :> Held(RawIssue(kA1, rInProgress, sA, uAt, <<>>), <<>>, <<>>,
                     comments)
         @@ kA2 :> Held(RawIssue(kA2, rInProgress, sB, uAt, <<>>), <<>>, <<>>,
                        <<Comment3>>))]

InitComments ==
    /\ pc = "comments"
    /\ now = Instant(2025, 6, 1, 8, 30, 0, 0, 0)
    /\ fieldId = <<>>
    /\ server = ClientServer(uEnvServer)
    /\ raw = Nil /\ isOverdue = FALSE /\ rec = Nil
    /\ issues = <<>> /\ filtered = <<>> /\ again = <<>>
    /\ output = [kind |-> "none", text |-> <<>>]
    /\ cfg = ReportConfig(FALSE, <<>>, 0)
    /\ tracker \in { CommentTracker(comments) :
                       comments \in SeqUpTo({Comment1, Comment2, Comment3, Comment4},
                                            MaxComments) }
    /\ issueKeys \in {<<kA1>>, <<kA1, kA2>>}
    /\ parentIssues = [i \in 1..Len(issueKeys) |->
                          GetIssue(tracker, issueKeys[i], <<>>, <<>>)]
    /\ childIssues = <<>>
    /\ fetches = [i \in 1..Len(issueKeys) |->
                     [key |-> issueKeys[i], ok |-> TRUE, role |-> "parent"]]
    /\ mostRecentComments = <<>> /\ cursor = 1 /\ calls = <<>>
    /\ IdleSearch

NextComments == LookupComments \/ Attach

SpecComments == InitComments /\ [][NextComments]_vars

\* C13: the comment attached to a record is the most recent comment of its
\* issue: its created value is the created timestamp of the comment selected
\* as most recent, and its url points at that comment's id.
C13_AttachedIsSelectedComment ==
    pc = "render" =>
        \A i \in 1..Len(parentIssues) :
            parentIssues[i].Key \in DOMAIN mostRecentComments =>
                /\ parentIssues[i].Comment.Created
                     = mostRecentComments[parentIssues[i].Key].created
                /\ parentIssues[i].Comment.Url
                     = parentIssues[i].URL \o qFocused
                       \o mostRecentComments[parentIssues[i].Key].id
                       \o qPanel
                       \o mostRecentComments[parentIssues[i].Key].id

\* the comment at position i is one findLatestComment may return: none has a
\* greater created string, and none before it an equal one
C17_Latest(comments, i) ==
    /\ \A j \in 1..Len(comments) :
         ~StrLess(comments[i].created, comments[j].created)
    /\ \A j \in 1..(i - 1) : comments[j].created # comments[i].created

\* C17: findLatestComment returns nil for an empty list, so the issue has no
\* entry in the most-recent-comment map, and otherwise a comment whose created
\* string is greater than or equal to that of every comment of the list, the
\* earliest in the list among those with the greatest created string.
C17_LatestCommentSelected ==
    /\ pc \in {"attach", "render"} =>
         \A i \in 1..Len(issueKeys) :
            IF Len(tracker.byKey[issueKeys[i]].comments) = 0
            THEN /\ issueKeys[i] \notin DOMAIN mostRecentComments
                 /\ findLatestComment(tracker.byKey[issueKeys[i]].comments) = Nil
            ELSE /\ issueKeys[i] \in DOMAIN mostRecentComments
                 /\ \E j \in 1..Len(tracker.byKey[issueKeys[i]].comments) :
                      /\ mostRecentComments[issueKeys[i]]
                           = tracker.byKey[issueKeys[i]].comments[j]
                      /\ C17_Latest(tracker.byKey[issueKeys[i]].comments, j)

\* C17 witness: of the comments 10001 and 10002 of A-1, created at the same
\* time, the lookup has selected the first, and for A-2 its only comment
C17_Witness ==
    /\ pc = "attach"
    /\ issueKeys = <<kA1, kA2>>
    /\ tracker.byKey[kA1].comments = <<Comment1, Comment2>>
    /\ mostRecentComments[kA1] = Comment1
    /\ mostRecentComments[kA2] = Comment3

====
